---- MODULE Spec2Model ----
(***************************************************************************)
(* Model of Simple-PDF-Scraper: the directional pattern extractor          *)
(* (simple_pdf_scraper/extractors/pattern_extractor.py), the textual       *)
(* pattern grammar (simple_pdf_scraper/cli.py), and the line grouping and  *)
(* line synthesis of the pdfplumber processor                              *)
(* (simple_pdf_scraper/processors/pdfplumber_processor.py), and the        *)
(* region parser of the voyage log parser (aml_voyage_log_parser).         *)
(*                                                                         *)
(* A Python str is a sequence of one-character strings; indexes and        *)
(* offsets are the 0-based ones of the Python code unless said otherwise.  *)
(* Coordinates are integers in geometry units.                             *)
(***************************************************************************)
EXTENDS Integers, Sequences, FiniteSets, TLC

VARIABLES
    pc,           \* which operation has run: "idle" before any call
    text,         \* extract_pattern: the source text
    pattern,      \* extract_pattern: the pattern dict
    keyword_pos,  \* result of _find_keyword_position
    matches,      \* result of find_all_keyword_matches
    target_pos,   \* result of _calculate_target_position
    result,       \* returned value of the extraction
    pattern_str,  \* parse_pattern: the encoded pattern
    parsed,       \* parse_pattern: the returned dict or the raised ValueError
    chars,        \* _group_characters_by_line: the page's characters
    lines,        \* _group_characters_by_line: the returned lines
    avg_char_spacing,  \* line synthesis: the pitch of the line
    char_index,   \* line synthesis: the 0-based index of the glyph looked at
    keep_space,   \* returned value of _should_keep_space
    separator,    \* returned value of get_separator_to_add
    thresholds,   \* line synthesis: the three distances the line is filtered with
    adaptive,     \* processor.adaptive_mode
    methods,      \* processor: which of the methods its class lacks it has
    raised,       \* line synthesis: the call raised AttributeError
    patterns,     \* extract_multiple_patterns: the list of patterns
    results,      \* extract_multiple_patterns: the returned list
    evals,        \* the evaluations in progress on one shared extractor
    file,         \* parse_patterns_file: the lines of the file
    file_patterns, \* parse_patterns_file: the returned list, or None
    region_lines, \* _parse_region: the lines of the region
    loop_i,       \* _parse_region: the index i of the main loop
    state,        \* _parse_region: the state of the parser
    current_voyage, \* _parse_region: the voyage being filled, or None
    voyages,      \* _parse_region: the list of voyages, returned at the end
    visits,       \* how many iterations of the main loop each line has had
    route_id_lines, \* the indexes of the lines taken as a route ID, in order
    schedule,     \* build_port_schedule: the three lists it is called with
    port_schedule \* build_port_schedule: the returned list

extract_vars == <<text, pattern, keyword_pos, target_pos, result>>
parse_vars == <<pattern_str, parsed>>
group_vars == <<chars, lines>>
synth_vars == <<avg_char_spacing, char_index, keep_space, separator, thresholds,
                adaptive, methods, raised>>
multi_vars == <<patterns, results>>
file_vars == <<file, file_patterns>>
region_vars == <<region_lines, loop_i, state, current_voyage, voyages, visits,
                 route_id_lines>>
schedule_vars == <<schedule, port_schedule>>
voyage_vars == <<region_vars, schedule_vars>>

vars == <<pc, text, pattern, keyword_pos, matches, target_pos, result,
          pattern_str, parsed, chars, lines, avg_char_spacing, char_index,
          keep_space, separator, thresholds, adaptive, methods, raised,
          patterns, results, evals, file,
          file_patterns, region_lines, loop_i, state, current_voyage, voyages,
          visits, route_id_lines, schedule, port_schedule>>

----------------------------------------------------------------------------
(* Generic sequence helpers.                                               *)

\* All sequences over S of length 0..n.
SeqsUpTo(S, n) == UNION {[1..k -> S] : k \in 0..n}

Min(S) == CHOOSE x \in S : \A y \in S : x <= y

Range(s) == {s[i] : i \in 1..Len(s)}

\* The concatenation of a sequence of sequences: ''.join(ss).
RECURSIVE flatten(_)
flatten(ss) == IF ss = <<>> THEN <<>> ELSE ss[1] \o flatten(Tail(ss))

----------------------------------------------------------------------------
(* Python str methods used by the extractor.                               *)

\* The characters str.split() and str.strip() treat as whitespace.
Whitespace == {" ", "\t", "\n"}

Digits == {"0", "1", "2", "3", "4", "5", "6", "7", "8", "9"}

\* str.lower() on one character.
lower_char(c) ==
    CASE c = "A" -> "a"
      [] c = "B" -> "b"
      [] c = "C" -> "c"
      [] OTHER -> c

\* str.lower()
lower(s) == [i \in 1..Len(s) |-> lower_char(s[i])]

\* str.find(sub): the lowest 0-based offset of sub in s, or -1.
find(s, sub) ==
    LET hits == {i \in 0..(Len(s) - Len(sub)) : SubSeq(s, i + 1, i + Len(sub)) = sub}
    IN  IF hits = {} THEN -1 ELSE Min(hits)

\* sub in s
contains(s, sub) == find(s, sub) /= -1

\* str.split(sep) for a one-character separator: always at least one piece.
RECURSIVE split_on(_, _)
split_on(s, sep) ==
    LET hits == {i \in 1..Len(s) : s[i] = sep}
    IN  IF hits = {} THEN <<s>>
        ELSE LET i == Min(hits)
             IN  <<SubSeq(s, 1, i - 1)>> \o split_on(SubSeq(s, i + 1, Len(s)), sep)

\* str.split(): the maximal runs of non-whitespace characters, in order.
RECURSIVE split(_)
split(s) ==
    LET starts == {i \in 1..Len(s) : s[i] \notin Whitespace}
    IN  IF starts = {} THEN <<>>
        ELSE LET b == Min(starts)
                 stops == {i \in b..Len(s) : s[i] \in Whitespace}
                 e == IF stops = {} THEN Len(s) + 1 ELSE Min(stops)
             IN  <<SubSeq(s, b, e - 1)>> \o split(SubSeq(s, e, Len(s)))

\* str.strip()
strip(s) ==
    LET keep == {i \in 1..Len(s) : s[i] \notin Whitespace}
    IN  IF keep = {} THEN <<>>
        ELSE SubSeq(s, Min(keep), CHOOSE j \in keep : \A k \in keep : k <= j)

\* ' '.join(words)
RECURSIVE join(_)
join(words) ==
    IF words = <<>> THEN <<>>
    ELSE IF Len(words) = 1 THEN words[1]
    ELSE words[1] \o <<" ">> \o join(Tail(words))

----------------------------------------------------------------------------
(* Values returned by the extractor.                                       *)

\* None where a str is expected; raised marks an exception leaving the call.
NoneStr == [some |-> FALSE, raised |-> FALSE, val |-> <<>>]
Str(s) == [some |-> TRUE, raised |-> FALSE, val |-> s]
Raised == [some |-> FALSE, raised |-> TRUE, val |-> <<>>]

\* None where a position dict is expected.
NonePos == [some |-> FALSE, raised |-> FALSE, line |-> 0, word_index |-> 0, line_text |-> <<>>]
Pos(l, w, t) == [some |-> TRUE, raised |-> FALSE, line |-> l, word_index |-> w, line_text |-> t]
RaisedPos == [some |-> FALSE, raised |-> TRUE, line |-> 0, word_index |-> 0, line_text |-> <<>>]

\* None where the keyword position dict is expected.
NoneKw == [some |-> FALSE, line |-> 0, word_index |-> 0, char_start |-> 0,
           char_end |-> 0, line_text |-> <<>>]

\* seq[i] of Python for any integer i: a negative i counts from the end, an i
\* outside -len..len-1 raises IndexError (ok = FALSE).
py_index_ok(s, i) == -Len(s) <= i /\ i < Len(s)
py_index(s, i) == IF i >= 0 THEN s[i + 1] ELSE s[Len(s) + i + 1]

\* seq[i:] of Python for any integer i.
py_slice_from(s, i) ==
    IF i >= 0 THEN SubSeq(s, i + 1, Len(s))
    ELSE IF Len(s) + i >= 0 THEN SubSeq(s, Len(s) + i + 1, Len(s))
    ELSE s

----------------------------------------------------------------------------
(* PatternExtractor.                                                       *)

Directions == {"left", "right", "above", "below"}
ExtractTypes == {"word", "number", "line", "text"}

\* char_pos when the loop of _find_keyword_position reaches words[k] (0-based):
\* every earlier word counts its length plus one for a single space.
RECURSIVE word_start(_, _)
word_start(words, k) ==
    IF k = 0 THEN 0 ELSE word_start(words, k - 1) + Len(words[k]) + 1

\* A slip: the word is chosen by the offset of the keyword only.
word_matches_by_offset(words, k, start_pos, keyword) ==
    LET word_start_k == word_start(words, k)
        word_end_k == word_start_k + Len(words[k + 1])
    IN  word_start_k <= start_pos /\ start_pos < word_end_k

\* The test of line 78 for words[k] (0-based) of a line in which the keyword
\* was found at offset start_pos.
word_matches(words, k, start_pos, keyword) ==
    LET word_start_k == word_start(words, k)
        word_end_k == word_start_k + Len(words[k + 1])
    IN  \/ (word_start_k <= start_pos /\ start_pos < word_end_k)
        \/ contains(lower(words[k + 1]), lower(keyword))

\* The 0-based indexes of the words of line that pass the test of line 78, or
\* {} when the keyword is not a substring of the line.
matching_words(line, keyword) ==
    LET start_pos == find(lower(line), lower(keyword))
        words == split(line)
    IN  IF start_pos = -1 THEN {}
        ELSE {k \in 0..(Len(words) - 1) : word_matches(words, k, start_pos, keyword)}

\* PatternExtractor._find_keyword_position
find_keyword_position(txt, keyword) ==
    LET ls == split_on(txt, "\n")
        hits == {l \in 0..(Len(ls) - 1) : matching_words(ls[l + 1], keyword) /= {}}
    IN  IF hits = {} THEN NoneKw
        ELSE LET line_idx == Min(hits)
                 line == ls[line_idx + 1]
                 words == split(line)
                 word_idx == Min(matching_words(line, keyword))
             IN  [some |-> TRUE, line |-> line_idx, word_index |-> word_idx,
                  char_start |-> word_start(words, word_idx),
                  char_end |-> word_start(words, word_idx) + Len(words[word_idx + 1]),
                  line_text |-> line]

\* The matches find_all_keyword_matches appends for one line: one for each
\* word that contains the keyword, from left to right.
word_contains(word, keyword) == contains(lower(word), lower(keyword))
line_matches(line, line_idx, keyword) ==
    LET words == split(line)
        hit(k) == word_contains(words[k], keyword)
        RECURSIVE from(_)
        from(k) ==
            IF k > Len(words) THEN <<>>
            ELSE (IF hit(k)
                  THEN <<[line |-> line_idx, word_index |-> k - 1, word |-> words[k],
                          line_text |-> line]>>
                  ELSE <<>>) \o from(k + 1)
    IN  from(1)

\* PatternExtractor.find_all_keyword_matches
find_all_keyword_matches(txt, keyword) ==
    LET ls == split_on(txt, "\n")
    IN  flatten([l \in 1..Len(ls) |-> line_matches(ls[l], l - 1, keyword)])

\* _calculate_target_position, direction == 'left' (lines 102-110).
target_left(ls, current_line, current_word, distance) ==
    LET target_word == current_word - distance
    IN  IF target_word < 0 THEN NonePos
        ELSE IF ~py_index_ok(ls, current_line) THEN RaisedPos
        ELSE Pos(current_line, target_word, py_index(ls, current_line))

\* A slip in the 'right' branch: the keyword's own word is not skipped.
target_right_no_skip(ls, current_line, current_word, distance) ==
    IF ~py_index_ok(ls, current_line) THEN RaisedPos
    ELSE LET words_in_line == Len(split(py_index(ls, current_line)))
             target_word == current_word + distance
         IN  IF target_word >= words_in_line THEN NonePos
             ELSE Pos(current_line, target_word, py_index(ls, current_line))

\* _calculate_target_position, direction == 'right' (lines 112-121).
target_right(ls, current_line, current_word, distance) ==
    IF ~py_index_ok(ls, current_line) THEN RaisedPos
    ELSE LET words_in_line == Len(split(py_index(ls, current_line)))
             target_word == current_word + distance + 1
         IN  IF target_word >= words_in_line THEN NonePos
             ELSE Pos(current_line, target_word, py_index(ls, current_line))

\* _calculate_target_position, direction == 'above' (lines 123-131).
target_above(ls, current_line, current_word, distance) ==
    LET target_line == current_line - distance
    IN  IF target_line < 0 THEN NonePos
        ELSE IF ~py_index_ok(ls, target_line) THEN RaisedPos
        ELSE Pos(target_line, 0, py_index(ls, target_line))

\* A slip in the 'below' branch: the test against len(lines) is missing.
target_below_unchecked(ls, current_line, current_word, distance) ==
    LET target_line == current_line + distance
    IN  IF ~py_index_ok(ls, target_line) THEN RaisedPos
        ELSE Pos(target_line, 0, py_index(ls, target_line))

\* _calculate_target_position, direction == 'below' (lines 133-141).
target_below(ls, current_line, current_word, distance) ==
    LET target_line == current_line + distance
    IN  IF target_line >= Len(ls) THEN NonePos
        ELSE IF ~py_index_ok(ls, target_line) THEN RaisedPos
        ELSE Pos(target_line, 0, py_index(ls, target_line))

\* PatternExtractor._calculate_target_position
calculate_target_position(txt, kw_pos, direction, distance) ==
    LET ls == split_on(txt, "\n")
        current_line == kw_pos.line
        current_word == kw_pos.word_index
    IN  CASE direction = "left" -> target_left(ls, current_line, current_word, distance)
          [] direction = "right" -> target_right(ls, current_line, current_word, distance)
          [] direction = "above" -> target_above(ls, current_line, current_word, distance)
          [] direction = "below" -> target_below(ls, current_line, current_word, distance)
          [] OTHER -> NonePos

\* The offset just after the run of digits of w that starts at 1-based i.
RECURSIVE digits_end(_, _)
digits_end(w, i) ==
    IF i <= Len(w) /\ w[i] \in Digits THEN digits_end(w, i + 1) ELSE i

\* The greedy (?:[.,]\d+)* of number_pattern from 1-based p on.
RECURSIVE groups_end(_, _)
groups_end(w, p) ==
    IF p + 1 <= Len(w) /\ w[p] \in {".", ","} /\ w[p + 1] \in Digits
    THEN groups_end(w, digits_end(w, p + 1))
    ELSE p

\* number_pattern.search(w) for -?\d+(?:[.,]\d+)*: the leftmost match, greedy.
number_search(w) ==
    LET starts == {i \in 1..Len(w) :
                      \/ w[i] \in Digits
                      \/ (w[i] = "-" /\ i < Len(w) /\ w[i + 1] \in Digits)}
    IN  IF starts = {} THEN NoneStr
        ELSE LET b == Min(starts)
                 d == IF w[b] = "-" THEN b + 1 ELSE b
             IN  Str(SubSeq(w, b, groups_end(w, digits_end(w, d)) - 1))

\* The loop of lines 172-176: the first match in words[i] for i from lo up to
\* hi - 1 (0-based, Python indexing).
RECURSIVE first_number(_, _, _)
first_number(words, lo, hi) ==
    IF lo >= hi THEN NoneStr
    ELSE IF ~py_index_ok(words, lo) THEN Raised
    ELSE LET number_match == number_search(py_index(words, lo))
         IN  IF number_match.some THEN number_match
             ELSE first_number(words, lo + 1, hi)

\* A slip in the 'line' branch: the line is returned untrimmed.
extract_line_untrimmed(line_text) == Str(line_text)

\* _extract_content, extract_type == 'line' (lines 158-159).
extract_line(line_text) == Str(strip(line_text))

\* _extract_content, extract_type == 'word' (lines 161-165).
extract_word(words, word_idx) ==
    IF word_idx < Len(words)
    THEN IF py_index_ok(words, word_idx) THEN Str(py_index(words, word_idx)) ELSE Raised
    ELSE NoneStr

\* A slip in the 'number' branch: the whole rest of the line is scanned.
extract_number_unbounded(words, word_idx) ==
    first_number(words, word_idx, Len(words))

\* _extract_content, extract_type == 'number' (lines 167-178).
extract_number(words, word_idx) ==
    first_number(words, word_idx,
                 IF word_idx + 3 < Len(words) THEN word_idx + 3 ELSE Len(words))

\* A slip in the 'text' branch: the words are joined without a separator.
extract_text_unseparated(words, word_idx) ==
    IF word_idx < Len(words)
    THEN Str(flatten(py_slice_from(words, word_idx)))
    ELSE NoneStr

\* _extract_content, extract_type == 'text' (lines 180-185).
extract_text(words, word_idx) ==
    IF word_idx < Len(words)
    THEN Str(join(py_slice_from(words, word_idx)))
    ELSE NoneStr

\* A slip: a target line without a word is not given up before the
\* extract type is looked at.
extract_content_of_any_line(txt, tgt_pos, extract_type) ==
    LET line_text == tgt_pos.line_text
        words == split(line_text)
        word_idx == tgt_pos.word_index
    IN  CASE extract_type = "line" -> extract_line(line_text)
          [] extract_type = "word" -> extract_word(words, word_idx)
          [] extract_type = "number" -> extract_number(words, word_idx)
          [] extract_type = "text" -> extract_text(words, word_idx)
          [] OTHER -> NoneStr

\* PatternExtractor._extract_content
extract_content(txt, tgt_pos, extract_type) ==
    LET line_text == tgt_pos.line_text
        words == split(line_text)
        word_idx == tgt_pos.word_index
    IN  IF words = <<>> THEN NoneStr
        ELSE CASE extract_type = "line" -> extract_line(line_text)
               [] extract_type = "word" -> extract_word(words, word_idx)
               [] extract_type = "number" -> extract_number(words, word_idx)
               [] extract_type = "text" -> extract_text(words, word_idx)
               [] OTHER -> NoneStr

\* PatternExtractor.extract_pattern: the three stages and the value returned.
extract_pattern_stages(txt, pat) ==
    LET kw == find_keyword_position(txt, pat.keyword)
        tgt == IF kw.some
               THEN calculate_target_position(txt, kw, pat.direction, pat.distance)
               ELSE NonePos
        res == IF ~kw.some THEN NoneStr
               ELSE IF tgt.raised THEN Raised
               ELSE IF ~tgt.some THEN NoneStr
               ELSE extract_content(txt, tgt, pat.extract_type)
    IN  [keyword_pos |-> kw, target_pos |-> tgt, result |-> res]

extract_pattern(txt, pat) == extract_pattern_stages(txt, pat).result

----------------------------------------------------------------------------
(* Values of the voyage log parser: a VoyageData, or None.                 *)

\* VoyageData.__init__ as create_voyage calls it.
create_voyage(region, route) ==
    [some |-> TRUE, region |-> region, route |-> route, trip_id |-> <<>>,
     alias |-> <<>>, tug |-> <<>>, barge |-> <<>>, ports |-> <<>>]

\* current_voyage = None
NoVoyage == [create_voyage("", <<>>) EXCEPT !.some = FALSE]

----------------------------------------------------------------------------
(* The state before any call, and the inputs the calls are made with.      *)

NoPattern == [keyword |-> <<>>, direction |-> "", distance |-> 0, extract_type |-> ""]

Init ==
    /\ pc = "idle"
    /\ text = <<>>
    /\ pattern = NoPattern
    /\ keyword_pos = NoneKw
    /\ target_pos = NonePos
    /\ result = NoneStr
    /\ pattern_str = <<>>
    /\ parsed = [ok |-> FALSE, keyword |-> <<>>, direction |-> <<>>, distance |-> 0,
                 extract_type |-> <<>>]
    /\ chars = <<>>
    /\ lines = <<>>
    /\ avg_char_spacing = 0
    /\ char_index = 0
    /\ keep_space = FALSE
    /\ separator = NoneStr
    /\ matches = <<>>
    /\ thresholds = [min_space_distance |-> [length |-> 0, above |-> FALSE],
                     add_space_distance |-> [length |-> 0, above |-> FALSE],
                     add_tab_distance |-> [length |-> 0, above |-> FALSE]]
    /\ adaptive = TRUE
    /\ methods = {}
    /\ raised = FALSE
    /\ patterns = <<>>
    /\ results = <<>>
    /\ evals = <<>>
    /\ file = <<>>
    /\ file_patterns = [some |-> FALSE, val |-> <<>>]
    /\ region_lines = <<>>
    /\ loop_i = 0
    /\ state = "expecting_route_id"
    /\ current_voyage = NoVoyage
    /\ voyages = <<>>
    /\ visits = <<>>
    /\ route_id_lines = <<>>
    /\ schedule = [port_codes |-> <<>>, arrival_times |-> <<>>,
                   departure_times |-> <<>>]
    /\ port_schedule = <<>>

\* Bounds of the texts and patterns extract_pattern is called with.
MaxTextLen == 5
MaxKeyLen == 2
MaxDist == 1

TextChars == {"A", "1", " ", "\n"}
KeyChars == {"a", " "}

Texts == SeqsUpTo(TextChars, MaxTextLen)

\* Keywords as parse_pattern yields them: no surrounding whitespace.
StrippedKeys(S, n) == {k \in SeqsUpTo(S, n) : k /= <<>> /\ strip(k) = k}
Keywords == StrippedKeys(KeyChars, MaxKeyLen)

Patterns ==
    [keyword : Keywords, direction : Directions, distance : 0..MaxDist,
     extract_type : ExtractTypes]

\* extractor.extract_pattern(text, pattern)
ExtractPattern ==
    /\ pc = "idle"
    /\ \E t \in Texts, p \in Patterns :
          LET st == extract_pattern_stages(t, p)
          IN  /\ text' = t
              /\ pattern' = p
              /\ keyword_pos' = st.keyword_pos
              /\ target_pos' = st.target_pos
              /\ result' = st.result
    /\ pc' = "extract_pattern"
    /\ UNCHANGED <<pattern_str, parsed, chars, lines>>
    /\ UNCHANGED <<synth_vars, matches, multi_vars, evals, file_vars, voyage_vars>>

Next == ExtractPattern

Spec == Init /\ [][Next]_vars

----------------------------------------------------------------------------
(* Keyword location on its own, and the word right of the keyword.         *)

MaxFindTextLen == 5
MaxFindKeyLen == 3

FindTextChars == {"a", "B", " ", "\n"}
FindKeyChars == {"a", "b", " "}

FindTexts == SeqsUpTo(FindTextChars, MaxFindTextLen)
FindKeywords == StrippedKeys(FindKeyChars, MaxFindKeyLen)

\* extractor._find_keyword_position(text, keyword)
FindKeywordPosition ==
    /\ pc = "idle"
    /\ \E t \in FindTexts, k \in FindKeywords :
          /\ text' = t
          /\ pattern' = [NoPattern EXCEPT !.keyword = k]
          /\ keyword_pos' = find_keyword_position(t, k)
    /\ pc' = "find_keyword_position"
    /\ UNCHANGED <<target_pos, result, pattern_str, parsed, chars, lines>>
    /\ UNCHANGED <<synth_vars, matches, multi_vars, evals, file_vars, voyage_vars>>

\* extractor.extract_pattern(text, {keyword, 'right', 0, 'word'})
ExtractWordRight ==
    /\ pc = "idle"
    /\ \E t \in FindTexts, k \in FindKeywords :
          LET p == [keyword |-> k, direction |-> "right", distance |-> 0,
                    extract_type |-> "word"]
              st == extract_pattern_stages(t, p)
          IN  /\ text' = t
              /\ pattern' = p
              /\ keyword_pos' = st.keyword_pos
              /\ target_pos' = st.target_pos
              /\ result' = st.result
    /\ pc' = "extract_word_right"
    /\ UNCHANGED <<pattern_str, parsed, chars, lines>>
    /\ UNCHANGED <<synth_vars, matches, multi_vars, evals, file_vars, voyage_vars>>

\* extractor._find_keyword_position(text, keyword) and
\* extractor.find_all_keyword_matches(text, keyword) on the same text.
FindAllKeywordMatches ==
    /\ pc = "idle"
    /\ \E t \in FindTexts, k \in FindKeywords :
          /\ text' = t
          /\ pattern' = [NoPattern EXCEPT !.keyword = k]
          /\ keyword_pos' = find_keyword_position(t, k)
          /\ matches' = find_all_keyword_matches(t, k)
    /\ pc' = "find_all_keyword_matches"
    /\ UNCHANGED <<target_pos, result, pattern_str, parsed, chars, lines>>
    /\ UNCHANGED <<synth_vars, multi_vars, evals, file_vars, voyage_vars>>

NextFind == FindKeywordPosition \/ ExtractWordRight \/ FindAllKeywordMatches

SpecFind == Init /\ [][NextFind]_vars

----------------------------------------------------------------------------
(* Content extraction on its own.                                          *)

MaxTokens == 5
MaxWordIdx == 3

\* A target line is a run of these pieces: a word "a" comes with the space
\* that ends it, the other pieces are single characters.
ContentTokens == {<<" ">>, <<"a", " ">>, <<"1">>, <<"-">>, <<",">>, <<".">>}

ContentLines == {flatten(ts) : ts \in SeqsUpTo(ContentTokens, MaxTokens)}

\* extractor._extract_content(text, target_pos, extract_type)
ExtractContent ==
    /\ pc = "idle"
    /\ \E l \in ContentLines, t \in 0..MaxWordIdx, ty \in ExtractTypes :
          /\ text' = l
          /\ pattern' = [NoPattern EXCEPT !.extract_type = ty]
          /\ target_pos' = Pos(0, t, l)
          /\ result' = extract_content(l, Pos(0, t, l), ty)
    /\ pc' = "extract_content"
    /\ UNCHANGED <<keyword_pos, pattern_str, parsed, chars, lines>>
    /\ UNCHANGED <<synth_vars, matches, multi_vars, evals, file_vars, voyage_vars>>

NextContent == ExtractContent

SpecContent == Init /\ [][NextContent]_vars

----------------------------------------------------------------------------
(* What the claims speak of, stated from the text itself: the real offsets *)
(* of words and the tokens a numeric pattern denotes.                      *)

\* The 0-based offsets of s at which a whitespace-delimited word starts.
word_offsets(s) ==
    {i \in 0..(Len(s) - 1) : s[i + 1] \notin Whitespace /\ (i = 0 \/ s[i] \in Whitespace)}

\* The word of s that starts at 0-based offset i.
word_at(s, i) ==
    LET stops == {j \in (i + 1)..Len(s) : s[j] \in Whitespace}
    IN  SubSeq(s, i + 1, IF stops = {} THEN Len(s) ELSE Min(stops) - 1)

\* The offsets of the words of t that start at or after the end of the first
\* occurrence of keyword k.
words_after_keyword(t, k) ==
    {i \in word_offsets(t) : i >= find(lower(t), lower(k)) + Len(k)}

\* The 0-based indexes of the lines of t that contain k, case-insensitively.
lines_with_keyword(t, k) ==
    LET ls == split_on(t, "\n")
    IN  {l \in 0..(Len(ls) - 1) : contains(lower(ls[l + 1]), lower(k))}

\* m is an optional minus sign, then digits in groups separated by single
\* '.' or ',' characters.
is_number_token(m) ==
    LET body == IF m /= <<>> /\ m[1] = "-" THEN Tail(m) ELSE m
    IN  /\ body /= <<>>
        /\ \A i \in 1..Len(body) : body[i] \in Digits \cup {".", ","}
        /\ body[1] \in Digits
        /\ body[Len(body)] \in Digits
        /\ \A i \in 1..(Len(body) - 1) : body[i] \in Digits \/ body[i + 1] \in Digits

\* The <<first, last>> places (1-based) of the substrings of w that are tokens.
tokens_in(w) ==
    {be \in (1..Len(w)) \X (1..Len(w)) :
        be[1] <= be[2] /\ is_number_token(SubSeq(w, be[1], be[2]))}

\* The first match in w: the leftmost token, and the longest one starting there.
first_token(w) ==
    LET b == Min({be[1] : be \in tokens_in(w)})
        e == CHOOSE e \in {be[2] : be \in {x \in tokens_in(w) : x[1] = b}} :
                \A be \in tokens_in(w) : be[1] = b => be[2] <= e
    IN  SubSeq(w, b, e)

----------------------------------------------------------------------------
(* Claims on extract_pattern as a whole (Spec).                            *)

\* C2: with a direction among left/right/above/below, an extract type among
\* word/number/line/text and a distance >= 0, extract_pattern never raises; it
\* returns None when the keyword occurs nowhere in the text, and when the
\* direction is right and the distance leads past the last word of the line.
C2_ExtractNeverRaises ==
    pc = "extract_pattern" =>
        /\ ~result.raised
        /\ ~target_pos.raised
        /\ (~contains(lower(text), lower(pattern.keyword)) => result = NoneStr)
        /\ (/\ keyword_pos.some
            /\ pattern.direction = "right"
            /\ keyword_pos.word_index + pattern.distance + 1
                 >= Len(split(keyword_pos.line_text))
            => result = NoneStr)

\* C2's case: the keyword is found and the target lies right of the last word.
C2_Witness ==
    /\ pc = "extract_pattern"
    /\ keyword_pos.some
    /\ pattern.direction = "right"
    /\ pattern.extract_type = "line"
    /\ keyword_pos.word_index + pattern.distance + 1 = Len(split(keyword_pos.line_text))
    /\ result = NoneStr

\* C4: from an anchor at word a of a line of n words, left targets word a - d
\* and is absent iff a - d < 0, right targets word a + d + 1 and is absent iff
\* a + d + 1 >= n; the target line is the anchor line.
C4_LeftRightTarget ==
    (pc = "extract_pattern" /\ keyword_pos.some
        /\ pattern.direction \in {"left", "right"}) =>
        LET a == keyword_pos.word_index
            d == pattern.distance
            n == Len(split(split_on(text, "\n")[keyword_pos.line + 1]))
            t == IF pattern.direction = "left" THEN a - d ELSE a + d + 1
        IN  /\ ~target_pos.raised
            /\ target_pos.some <=> (0 <= t /\ t < n)
            /\ target_pos.some =>
                  /\ target_pos.word_index = t
                  /\ target_pos.line = keyword_pos.line
                  /\ target_pos.line_text = split_on(text, "\n")[keyword_pos.line + 1]

\* C4's case: a right target that skips a word beyond the keyword's.
C4_Witness ==
    /\ pc = "extract_pattern"
    /\ keyword_pos.some
    /\ pattern.direction = "right"
    /\ pattern.distance = 1
    /\ target_pos.some
    /\ target_pos.word_index = keyword_pos.word_index + 2

\* C5 as stated: from an anchor on line l of m lines, above targets line l - d
\* (absent iff l - d < 0), below targets line l + d (absent iff l + d >= m),
\* both at word 0; with extract type line the result is the target line with
\* its leading and trailing whitespace removed.
C5_AboveBelowLine ==
    (pc = "extract_pattern" /\ keyword_pos.some
        /\ pattern.direction \in {"above", "below"}) =>
        LET ls == split_on(text, "\n")
            l == keyword_pos.line
            d == pattern.distance
            t == IF pattern.direction = "above" THEN l - d ELSE l + d
        IN  /\ target_pos.some <=> (0 <= t /\ t < Len(ls))
            /\ target_pos.some =>
                  /\ target_pos.line = t
                  /\ target_pos.word_index = 0
                  /\ pattern.extract_type = "line" => result = Str(strip(ls[t + 1]))

\* C5 as amended: the same targets; with extract type line the result is the
\* trimmed target line when that line holds a word, and absent when it holds
\* none.
C5_AboveBelowLineOrAbsent ==
    (pc = "extract_pattern" /\ keyword_pos.some
        /\ pattern.direction \in {"above", "below"}) =>
        LET ls == split_on(text, "\n")
            l == keyword_pos.line
            d == pattern.distance
            t == IF pattern.direction = "above" THEN l - d ELSE l + d
        IN  /\ target_pos.some <=> (0 <= t /\ t < Len(ls))
            /\ target_pos.some =>
                  /\ target_pos.line = t
                  /\ target_pos.word_index = 0
                  /\ pattern.extract_type = "line" =>
                        result = IF strip(ls[t + 1]) = <<>> THEN NoneStr
                                 ELSE Str(strip(ls[t + 1]))

\* C5's case: the line above the anchor is returned without the whitespace
\* around it.
C5_Witness ==
    /\ pc = "extract_pattern"
    /\ keyword_pos.some
    /\ pattern.direction = "above"
    /\ pattern.distance = 1
    /\ pattern.extract_type = "line"
    /\ target_pos.some
    /\ result.some
    /\ result.val /= target_pos.line_text

\* C26: a result of extract_pattern that is not None is never the empty
\* string: it has a character that is not whitespace and neither starts nor
\* ends with whitespace; and a target line without a word gives None for
\* every extract type, so '' in the caller's row stands for None only.
C26_ResultNeverEmpty ==
    pc = "extract_pattern" =>
        /\ result.some =>
              /\ result.val /= <<>>
              /\ \E i \in 1..Len(result.val) : result.val[i] \notin Whitespace
              /\ result.val[1] \notin Whitespace
              /\ result.val[Len(result.val)] \notin Whitespace
        /\ (target_pos.some /\ split(target_pos.line_text) = <<>>) => result = NoneStr

\* C26's case: the target is a line of whitespace only, asked for as a line,
\* and the result is None.
C26_Witness ==
    /\ pc = "extract_pattern"
    /\ target_pos.some
    /\ target_pos.line_text /= <<>>
    /\ split(target_pos.line_text) = <<>>
    /\ pattern.extract_type = "line"
    /\ result = NoneStr

----------------------------------------------------------------------------
(* Claims on keyword location (SpecFind).                                  *)

\* C1: on a single-line text in which the keyword occurs and is followed by a
\* word, right/0/word returns the first word after the whole keyword, also
\* for a keyword of several words.
C1_RightWordFollowsKeyword ==
    (/\ pc = "extract_word_right"
     /\ "\n" \notin Range(text)
     /\ contains(lower(text), lower(pattern.keyword))
     /\ words_after_keyword(text, pattern.keyword) /= {}) =>
        result = Str(word_at(text, Min(words_after_keyword(text, pattern.keyword))))

\* C3: the anchor is on the first line that contains the keyword as a
\* case-insensitive substring, and it is absent iff no line contains it.
C3_AnchorOnFirstLineWithKeyword ==
    pc = "find_keyword_position" =>
        LET holding == lines_with_keyword(text, pattern.keyword)
        IN  /\ keyword_pos.some <=> holding /= {}
            /\ keyword_pos.some => keyword_pos.line = Min(holding)

\* The words of the text that contain the keyword whatever the case, as
\* pairs of 0-based line and word indexes, and their order in the text.
keyword_words ==
    LET ls == split_on(text, "\n")
    IN  {lw \in (0..(Len(ls) - 1)) \X (0..Len(text)) :
            /\ lw[2] < Len(split(ls[lw[1] + 1]))
            /\ contains(lower(split(ls[lw[1] + 1])[lw[2] + 1]), lower(pattern.keyword))}
comes_first(a, b) == a[1] < b[1] \/ (a[1] = b[1] /\ a[2] <= b[2])

\* C29: for a keyword without whitespace the anchor of _find_keyword_position
\* is the first word, left to right, of the first line with a word that
\* contains the keyword whatever the case, and it is the line and word index
\* of the first entry of find_all_keyword_matches; both are empty-handed
\* when no word contains the keyword.
C29_AnchorIsFirstMatch ==
    (pc = "find_all_keyword_matches" /\ Range(pattern.keyword) \cap Whitespace = {}) =>
        IF keyword_words = {} THEN ~keyword_pos.some /\ matches = <<>>
        ELSE LET first == CHOOSE a \in keyword_words :
                              \A b \in keyword_words : comes_first(a, b)
             IN  /\ keyword_pos.some
                 /\ <<keyword_pos.line, keyword_pos.word_index>> = first
                 /\ matches /= <<>>
                 /\ <<matches[1].line, matches[1].word_index>> = first

\* C29's case: the keyword is in the second word of a line that starts with
\* whitespace and has two spaces between its words.
C29_Witness ==
    /\ pc = "find_all_keyword_matches"
    /\ Range(pattern.keyword) \cap Whitespace = {}
    /\ keyword_pos.some
    /\ keyword_pos.word_index = 1
    /\ keyword_pos.line_text[1] = " "
    /\ \E i \in 2..(Len(keyword_pos.line_text) - 1) :
          keyword_pos.line_text[i] = " " /\ keyword_pos.line_text[i + 1] = " "

----------------------------------------------------------------------------
(* Claims on content extraction (SpecContent).                             *)

\* C6: extract type number looks at the words t, t+1, t+2 of the target line
\* only (clipped at the line's end), in order, and returns the first numeric
\* token of the first of them that holds one; absent when none of them does.
C6_NumberWindow ==
    (pc = "extract_content" /\ pattern.extract_type = "number") =>
        LET words == split(target_pos.line_text)
            t == target_pos.word_index
            hits == {i \in t..(t + 2) : i < Len(words) /\ tokens_in(words[i + 1]) /= {}}
        IN  result = IF hits = {} THEN NoneStr
                     ELSE Str(first_token(words[Min(hits) + 1]))

\* C6's case: a word beyond the window holds a number and the result is absent.
C6_Witness ==
    /\ pc = "extract_content"
    /\ pattern.extract_type = "number"
    /\ result = NoneStr
    /\ LET words == split(target_pos.line_text)
       IN  /\ Len(words) > target_pos.word_index + 3
           /\ tokens_in(words[target_pos.word_index + 4]) /= {}

\* C7: extract type text returns the words from t to the end of the target
\* line, in order, joined by one space each; absent when t is no index of the
\* line's word list.
C7_TextToEndOfLine ==
    (pc = "extract_content" /\ pattern.extract_type = "text") =>
        LET words == split(target_pos.line_text)
            t == target_pos.word_index
        IN  IF t >= Len(words) THEN result = NoneStr
            ELSE /\ result.some
                 /\ split(result.val) = SubSeq(words, t + 1, Len(words))
                 /\ Len(result.val) = Len(flatten(SubSeq(words, t + 1, Len(words))))
                                         + (Len(words) - t - 1)
                 /\ \A i \in 1..Len(result.val) :
                       result.val[i] \in Whitespace => result.val[i] = " "

\* C7's case: a run of several spaces of the line is one space of the result.
C7_Witness ==
    /\ pc = "extract_content"
    /\ pattern.extract_type = "text"
    /\ target_pos.word_index = 1
    /\ result.some
    /\ Len(split(result.val)) >= 2
    /\ find(target_pos.line_text, <<" ", " ">>) > 0
    /\ find(result.val, <<" ", " ">>) = -1

----------------------------------------------------------------------------
(* cli.parse_pattern: the textual encoding keyword:direction:distance:type *)

\* The words of the encoding, as the characters parse_pattern compares.
DirectionWords ==
    {<<"l", "e", "f", "t">>, <<"r", "i", "g", "h", "t">>,
     <<"a", "b", "o", "v", "e">>, <<"b", "e", "l", "o", "w">>}
ExtractTypeWords ==
    {<<"w", "o", "r", "d">>, <<"n", "u", "m", "b", "e", "r">>,
     <<"l", "i", "n", "e">>, <<"t", "e", "x", "t">>}

digit_value(c) ==
    CASE c = "0" -> 0 [] c = "1" -> 1 [] c = "2" -> 2 [] c = "3" -> 3 [] c = "4" -> 4
      [] c = "5" -> 5 [] c = "6" -> 6 [] c = "7" -> 7 [] c = "8" -> 8 [] c = "9" -> 9

\* The value of a run of decimal digits.
RECURSIVE digits_value(_)
digits_value(ds) ==
    IF ds = <<>> THEN 0
    ELSE 10 * digits_value(SubSeq(ds, 1, Len(ds) - 1)) + digit_value(ds[Len(ds)])

\* int(s) of Python on the characters modelled (digits, signs, whitespace and
\* other characters; no underscore): whitespace around the number is
\* dropped, one sign may lead, at least one digit follows and nothing else.
\* digits: the digits of the number, or <<>> when int(s) raises ValueError.
int_digits(s) ==
    LET body == strip(s)
        unsigned == IF body /= <<>> /\ body[1] \in {"-", "+"} THEN Tail(body) ELSE body
    IN  IF unsigned /= <<>> /\ \A i \in 1..Len(unsigned) : unsigned[i] \in Digits
        THEN unsigned ELSE <<>>

int_ok(s) == int_digits(s) /= <<>>

int_value(s) ==
    IF strip(s)[1] = "-" THEN 0 - digits_value(int_digits(s)) ELSE digits_value(int_digits(s))

\* A slip in the direction test: any direction passes.
direction_ok_any(direction) == TRUE

\* The test of lines 38-39.
direction_ok(direction) == direction \in DirectionWords

\* The test of lines 41-42.
extract_type_ok(extract_type) == extract_type \in ExtractTypeWords

ParseError ==
    [ok |-> FALSE, keyword |-> <<>>, direction |-> <<>>, distance |-> 0,
     extract_type |-> <<>>]

\* cli.parse_pattern: ok = FALSE stands for the ValueError raised.
parse_pattern(s) ==
    LET parts == split_on(s, ":")
    IN  IF Len(parts) /= 4 THEN ParseError
        ELSE IF ~int_ok(parts[3]) THEN ParseError
        ELSE IF ~direction_ok(parts[2]) THEN ParseError
        ELSE IF ~extract_type_ok(parts[4]) THEN ParseError
        ELSE [ok |-> TRUE, keyword |-> strip(parts[1]), direction |-> parts[2],
              distance |-> int_value(parts[3]), extract_type |-> parts[4]]

\* Bound of the distance field's length.
MaxDistLen == 2

KeywordFields == {<<"a">>, <<" ", "a", " ">>, <<>>}
DirectionFields == DirectionWords \cup {<<"L", "e", "f", "t">>, <<>>}
DistChars == {"1", "-", " ", "x"}
DistanceFields == SeqsUpTo(DistChars, MaxDistLen)
ExtractTypeFields == ExtractTypeWords \cup {<<"w", "o", "r", "d", "s">>}

\* ':'.join(fields)
RECURSIVE join_colon(_)
join_colon(fields) ==
    IF Len(fields) = 1 THEN fields[1]
    ELSE fields[1] \o <<":">> \o join_colon(Tail(fields))

\* The encodings parse_pattern is called with: four fields, three fields (no
\* extract type), and five fields (a keyword that holds a ':').
Encodings ==
    {join_colon(fs) : fs \in
        (KeywordFields \X DirectionFields \X DistanceFields \X ExtractTypeFields)
        \cup (KeywordFields \X DirectionFields \X DistanceFields)
        \cup (KeywordFields \X KeywordFields \X DirectionFields \X DistanceFields
              \X ExtractTypeFields)}

\* parse_pattern(pattern_str)
ParsePattern ==
    /\ pc = "idle"
    /\ \E s \in Encodings :
          /\ pattern_str' = s
          /\ parsed' = parse_pattern(s)
    /\ pc' = "parse_pattern"
    /\ UNCHANGED <<text, pattern, keyword_pos, target_pos, result, chars, lines>>
    /\ UNCHANGED <<synth_vars, matches, multi_vars, evals, file_vars, voyage_vars>>

NextParse == ParsePattern

SpecParse == Init /\ [][NextParse]_vars

\* The fields of an encoding, counted and cut at its ':' characters.
colons(s) == {i \in 1..Len(s) : s[i] = ":"}

field(s, k) ==
    LET cuts == colons(s) \cup {0, Len(s) + 1}
        from == CHOOSE c \in cuts : Cardinality({x \in cuts : x < c}) = k - 1
        to == CHOOSE c \in cuts : Cardinality({x \in cuts : x < c}) = k
    IN  SubSeq(s, from + 1, to - 1)

\* s is the decimal text of an integer, with optional whitespace around it:
\* an optional sign, then digits only.
is_integer_text(s) ==
    LET body == strip(s)
        digits == IF body /= <<>> /\ body[1] \in {"-", "+"} THEN Tail(body) ELSE body
    IN  /\ digits /= <<>>
        /\ \A i \in 1..Len(digits) : digits[i] \in Digits

\* s is the decimal text of the integer n.
is_text_of(s, n) ==
    LET body == strip(s)
        digits == IF body[1] \in {"-", "+"} THEN Tail(body) ELSE body
    IN  /\ is_integer_text(s)
        /\ n = (IF body[1] = "-" THEN -1 ELSE 1) * digits_value(digits)

\* C8: parse_pattern raises ValueError when the string does not split on ':'
\* into exactly 4 fields, when the distance is no integer, when the direction
\* or the extract type is not a known one; otherwise it returns those four
\* fields, the distance as an integer and the keyword trimmed.
C8_ParsePatternValidates ==
    pc = "parse_pattern" =>
        LET four == Cardinality(colons(pattern_str)) = 3
            valid == /\ four
                     /\ is_integer_text(field(pattern_str, 3))
                     /\ field(pattern_str, 2) \in DirectionWords
                     /\ field(pattern_str, 4) \in ExtractTypeWords
        IN  /\ parsed.ok <=> valid
            /\ parsed.ok =>
                  /\ parsed.keyword = strip(field(pattern_str, 1))
                  /\ parsed.direction = field(pattern_str, 2)
                  /\ is_text_of(field(pattern_str, 3), parsed.distance)
                  /\ parsed.extract_type = field(pattern_str, 4)

\* C8's case: a valid encoding whose keyword field has whitespace around it.
C8_Witness ==
    /\ pc = "parse_pattern"
    /\ parsed.ok
    /\ parsed.keyword = <<"a">>
    /\ field(pattern_str, 1) = <<" ", "a", " ">>
    /\ parsed.distance = 11

\* C9: parse_pattern rejects a negative distance: every pattern it returns has
\* a distance >= 0.
C9_NoNegativeDistance ==
    (pc = "parse_pattern" /\ parsed.ok) => parsed.distance >= 0

----------------------------------------------------------------------------
(* PDFPlumberProcessor._group_characters_by_line                           *)

\* line_tolerance, in geometry units.
line_tolerance == 2

\* key=lambda c: (-c['y1'], c['x0']): key(a) < key(b) and key(a) = key(b).
page_key_lt(a, b) == a.y1 > b.y1 \/ (a.y1 = b.y1 /\ a.x0 < b.x0)
page_key_eq(a, b) == a.y1 = b.y1 /\ a.x0 = b.x0

\* sorted(s, key=lambda c: (-c['y1'], c['x0'])): a stable sort, so s[i] comes
\* after the members of smaller key and the earlier members of equal key.
sorted_by_page_key(s) ==
    LET place(i) == 1 + Cardinality({j \in 1..Len(s) :
                          \/ page_key_lt(s[j], s[i])
                          \/ (j < i /\ page_key_eq(s[j], s[i]))})
    IN  [p \in 1..Len(s) |-> s[CHOOSE i \in 1..Len(s) : place(i) = p]]

\* line.sort(key=lambda c: c['x0']): stable as well.
sorted_by_x0(s) ==
    LET place(i) == 1 + Cardinality({j \in 1..Len(s) :
                          \/ s[j].x0 < s[i].x0
                          \/ (j < i /\ s[j].x0 = s[i].x0)})
    IN  [p \in 1..Len(s) |-> s[CHOOSE i \in 1..Len(s) : place(i) = p]]

abs(x) == IF x < 0 THEN 0 - x ELSE x

\* The loop of lines 239-247 over the rest of sorted_chars.
RECURSIVE group_walk(_, _, _, _)
group_walk(rest, done, current_line, current_y) ==
    IF rest = <<>> THEN Append(done, current_line)
    ELSE LET char == rest[1]
         IN  IF abs(char.y1 - current_y) <= line_tolerance
             THEN group_walk(Tail(rest), done, Append(current_line, char), current_y)
             ELSE group_walk(Tail(rest), Append(done, current_line), <<char>>, char.y1)

\* A slip: the lines are returned as the walk left them, without the sort of
\* lines 254-255.
sort_lines_skipped(ls) == ls

\* Lines 254-255: each line sorted by x0.
sort_lines(ls) == [i \in 1..Len(ls) |-> sorted_by_x0(ls[i])]

\* A slip: neither 'if not chars' nor 'if current_line' guards the walk, which
\* starts from an empty current line.
group_characters_by_line_unguarded(cs) ==
    sort_lines(group_walk(sorted_by_page_key(cs), <<>>, <<>>,
                          IF cs = <<>> THEN 0 ELSE sorted_by_page_key(cs)[1].y1))

\* PDFPlumberProcessor._group_characters_by_line
group_characters_by_line(cs) ==
    IF cs = <<>> THEN <<>>
    ELSE LET sorted_chars == sorted_by_page_key(cs)
         IN  sort_lines(group_walk(Tail(sorted_chars), <<>>, <<sorted_chars[1]>>,
                                   sorted_chars[1].y1))

\* Bound of the number of characters of a page.
MaxChars == 3

\* The characters of a page: glyphs one unit wide at these places.
GlyphTexts == {"a", "b"}
XCoords == {0, 1}
YCoords == {0, 2, 3, 5}
Characters ==
    {[text |-> t, x0 |-> x, x1 |-> x + 1, y1 |-> y] :
        t \in GlyphTexts, x \in XCoords, y \in YCoords}

\* processor._group_characters_by_line(chars)
GroupCharactersByLine ==
    /\ pc = "idle"
    /\ \E cs \in SeqsUpTo(Characters, MaxChars) :
          /\ chars' = cs
          /\ lines' = group_characters_by_line(cs)
    /\ pc' = "group_characters_by_line"
    /\ UNCHANGED <<text, pattern, keyword_pos, target_pos, result, pattern_str, parsed>>
    /\ UNCHANGED <<synth_vars, matches, multi_vars, evals, file_vars, voyage_vars>>

NextGroup == GroupCharactersByLine

SpecGroup == Init /\ [][NextGroup]_vars

\* The top-Y of a line's reference member: the highest of the line.
reference_y(line) == CHOOSE y \in {line[i].y1 : i \in 1..Len(line)} :
                        \A i \in 1..Len(line) : line[i].y1 <= y

\* C10: every line has its characters in non-decreasing x0 order, every
\* character of a line has its y1 within line_tolerance of the y1 of the
\* line's reference (highest) member, and each line's reference y1 is lower
\* than the previous line's by more than line_tolerance.
C10_LinesSortedAndSeparated ==
    pc = "group_characters_by_line" =>
        /\ \A l \in 1..Len(lines) :
              /\ lines[l] /= <<>>
              /\ \A i \in 1..(Len(lines[l]) - 1) : lines[l][i].x0 <= lines[l][i + 1].x0
              /\ \A i \in 1..Len(lines[l]) :
                    abs(lines[l][i].y1 - reference_y(lines[l])) <= line_tolerance
        /\ \A l \in 1..(Len(lines) - 1) :
              reference_y(lines[l + 1]) < reference_y(lines[l]) - line_tolerance

\* C10's case: a line whose lower member is left of its higher one, followed
\* by a second line that starts within the tolerance of that lower member.
C10_Witness ==
    /\ pc = "group_characters_by_line"
    /\ Len(lines) = 2
    /\ Len(lines[1]) = 2
    /\ lines[1][1].y1 < lines[1][2].y1
    /\ lines[1][1].x0 < lines[1][2].x0
    /\ lines[1][1].y1 - lines[2][1].y1 <= line_tolerance

----------------------------------------------------------------------------
(* PDFPlumberProcessor: line synthesis.                                    *)
(*                                                                         *)
(* The centers and spacings of char_data are counted in 1/200 of a         *)
(* geometry unit: the halves of the centers, the quarters of a median and  *)
(* the exact products of a spacing with the ratios are then whole numbers. *)
(* The code computes a threshold as a float product, which can lie just    *)
(* above the exact product (25.0 * 1.1 = 27.500000000000004): a threshold  *)
(* is a length together with the side of it the float is on, so that the   *)
(* comparisons are the ones the code makes on its floats for characters    *)
(* whose edges are at whole coordinates.                                   *)
(*                                                                         *)
(* The processor calls self._apply_enhanced_center_distance_filtering      *)
(* (line 283) and self._should_add_space_after (line 348), and its class   *)
(* defines neither: on the processor as it stands (methods = {}) the call  *)
(* raises AttributeError. On a processor that has them (methods =          *)
(* MissingMethods) the two are modelled from sections 4.3 and 9 of the     *)
(* specification; apply_enhanced_adaptive_filtering, get_separator_to_add  *)
(* and should_add_space_after of the tests are the same algorithms.        *)

\* Parts of a geometry unit the lengths of char_data are counted in.
units == 200

\* The methods the processor calls on itself and its class does not define;
\* a processor as it stands, and one that has been given the two.
MissingMethods == {"_apply_enhanced_center_distance_filtering", "_should_add_space_after"}
Processors == {{}, MissingMethods}

\* return 4.8: the fallback spacing.
fallback_spacing == 960

\* spacing < 50: the spacings from here on are not counted.
max_spacing == 10000

\* min_space_ratio=1.3, add_space_ratio=1.1, add_tab_ratio=1.3, in tenths.
min_space_ratio == 13
add_space_ratio == 11
add_tab_ratio == 13

\* space_char=' ', tab_char='\t'
space_char == " "
tab_char == "\t"

Max(S) == CHOOSE x \in S : \A y \in S : y <= x

\* Lines 265-272: text, center and is_space of each character of the line.
char_data_of(line_chars) ==
    [i \in 1..Len(line_chars) |->
        [text |-> line_chars[i].text,
         center |-> (units \div 2) * (line_chars[i].x0 + line_chars[i].x1),
         is_space |-> line_chars[i].text = " "]]

\* A distance the code compares a center distance with: its length in
\* 1/units, and whether the float the code holds lies above that length
\* although the length is a float itself. (A length that is no float, like
\* 5.3 or 4.8 * 1.3, is the center distance of no two characters at whole
\* coordinates, and the side of it the float is on decides no comparison.)
length_of(n) == [length |-> n, above |-> FALSE]

\* distance >= threshold, on the code's floats.
at_least(distance, thr) ==
    IF thr.above THEN distance > thr.length ELSE distance >= thr.length

\* The float of a ratio lies above the ratio: 1.1 by 0.4 units in the last
\* place, 1.3 by 0.2; in tenths of such a unit.
ratio_error(ratio) == IF ratio = 11 THEN 4 ELSE 2

\* The greatest power of two, from b on, that 1/2000 of n reaches.
RECURSIVE binade(_, _)
binade(n, b) == IF 2000 * (2 * b) <= n THEN binade(n, 2 * b) ELSE b

\* A length is a float when it is a whole number of eighths of a unit.
is_float(length) == length % (units \div 8) = 0

\* The product of two floats is the float nearest the product: with an exact
\* spacing it lies above the exact product, when that is a float, iff the
\* error of the ratio carries the product past the middle of two floats.
rounded_up(spacing, ratio) ==
    /\ is_float((spacing * ratio) \div 10)
    /\ ratio_error(ratio) * spacing > 1000 * binade(spacing * ratio, 1)

\* avg_char_spacing * ratio
threshold(spacing, ratio) ==
    [length |-> (spacing * ratio) \div 10, above |-> rounded_up(spacing, ratio)]

\* [c for c in char_data if not c['is_space']]
is_non_space(c) == ~c.is_space
non_space_chars(char_data) == SelectSeq(char_data, is_non_space)

\* A slip: a spacing of exactly 50 is counted.
spacing_counted_inclusive(spacing) == spacing > 0 /\ spacing <= max_spacing

\* if spacing > 0 and spacing < 50
spacing_counted(spacing) == spacing > 0 /\ spacing < max_spacing

\* Lines 314-319: the counted spacings between adjacent non-space characters.
spacings_of(char_data) ==
    LET ns == non_space_chars(char_data)
    IN  SelectSeq([i \in 1..(Len(ns) - 1) |-> ns[i + 1].center - ns[i].center],
                  spacing_counted)

\* spacings.sort()
sorted_spacings(s) ==
    LET place(i) == 1 + Cardinality({j \in 1..Len(s) :
                          \/ s[j] < s[i]
                          \/ (j < i /\ s[j] = s[i])})
    IN  [p \in 1..Len(s) |-> s[CHOOSE i \in 1..Len(s) : place(i) = p]]

\* PDFPlumberProcessor._calculate_average_character_spacing
calculate_average_character_spacing(char_data) ==
    IF Len(non_space_chars(char_data)) < 2 THEN fallback_spacing
    ELSE LET spacings == sorted_spacings(spacings_of(char_data))
             mid == Len(spacings) \div 2
         IN  IF spacings = <<>> THEN fallback_spacing
             ELSE IF Len(spacings) % 2 = 0
                  THEN (spacings[mid] + spacings[mid + 1]) \div 2
                  ELSE spacings[mid + 1]

\* A slip: a space is kept only beyond the threshold.
should_keep_space_strict(char_data, space_index, min_space_distance) ==
    LET before == {i \in 0..(space_index - 1) : ~char_data[i + 1].is_space}
        after == {i \in (space_index + 1)..(Len(char_data) - 1) :
                      ~char_data[i + 1].is_space}
    IN  IF before = {} \/ after = {} THEN TRUE
        ELSE char_data[Min(after) + 1].center - char_data[Max(before) + 1].center
                 > min_space_distance.length

\* PDFPlumberProcessor._should_keep_space
should_keep_space(char_data, space_index, min_space_distance) ==
    LET before == {i \in 0..(space_index - 1) : ~char_data[i + 1].is_space}
        after == {i \in (space_index + 1)..(Len(char_data) - 1) :
                      ~char_data[i + 1].is_space}
    IN  IF before = {} \/ after = {} THEN TRUE
        ELSE LET prev_char == char_data[Max(before) + 1]
                 next_char == char_data[Min(after) + 1]
                 distance == next_char.center - prev_char.center
             IN  at_least(distance, min_space_distance)

\* The separator to insert after a glyph (specification, 4.3: none before the
\* end of the line or a literal space, else the structural separator from
\* insert_boundary on, else a plain space from insert_space on), with the
\* processor's space_char and tab_char; get_separator_to_add of the tests.
get_separator_to_add(char_data, idx, add_space_distance, add_tab_distance) ==
    IF idx >= Len(char_data) - 1 THEN NoneStr
    ELSE LET current_char == char_data[idx + 1]
             next_char == char_data[idx + 2]
             distance == next_char.center - current_char.center
         IN  IF next_char.is_space THEN NoneStr
             ELSE IF at_least(distance, add_tab_distance) THEN Str(<<tab_char>>)
             ELSE IF at_least(distance, add_space_distance) THEN Str(<<space_char>>)
             ELSE NoneStr

\* The one pass over a line that _process_line_with_adaptive_filtering calls
\* as _apply_enhanced_center_distance_filtering (specification, 4.3: a literal
\* space is kept or dropped, another glyph is emitted and then its separator);
\* apply_enhanced_adaptive_filtering of the tests.
apply_enhanced_center_distance_filtering(char_data, min_space_distance, add_space_distance, add_tab_distance) ==
    LET appended(i) ==
            IF char_data[i + 1].is_space
            THEN IF should_keep_space(char_data, i, min_space_distance)
                 THEN <<space_char>> ELSE <<>>
            ELSE LET sep == get_separator_to_add(char_data, i, add_space_distance,
                                                 add_tab_distance)
                 IN  <<char_data[i + 1].text>> \o (IF sep.some THEN sep.val ELSE <<>>)
    IN  flatten([i \in 1..Len(char_data) |-> appended(i - 1)])

\* PDFPlumberProcessor._process_line_with_adaptive_filtering, on a processor
\* that has the methods ms: the empty line returns at once; on another line
\* self._apply_enhanced_center_distance_filtering (line 283) raises
\* AttributeError when the processor has no such method.
process_line_with_adaptive_filtering(line_chars, ms) ==
    IF line_chars = <<>> THEN Str(<<>>)
    ELSE LET char_data == char_data_of(line_chars)
             spacing == calculate_average_character_spacing(char_data)
         IN  IF "_apply_enhanced_center_distance_filtering" \notin ms THEN Raised
             ELSE Str(apply_enhanced_center_distance_filtering(
                      char_data, threshold(spacing, min_space_ratio),
                      threshold(spacing, add_space_ratio),
                      threshold(spacing, add_tab_ratio)))

\* The three distances the adaptive mode derives from the pitch of a line.
adaptive_thresholds(spacing) ==
    [min_space_distance |-> threshold(spacing, min_space_ratio),
     add_space_distance |-> threshold(spacing, add_space_ratio),
     add_tab_distance |-> threshold(spacing, add_tab_ratio)]

\* The legacy mode of PDFPlumberProcessor.__init__: a distance that is not
\* given is None, and a distance that is None or zero takes its default
\* (6.0 and 5.3); add_tab_distance is always 6.2.
NoDistance == 0 - 1
default_min_space_distance == 1200
default_add_space_distance == 1060
legacy_add_tab_distance == 1240
adaptive_mode(min_space_distance, add_space_distance) ==
    min_space_distance = NoDistance /\ add_space_distance = NoDistance
distance_or(distance, default) ==
    length_of(IF distance = NoDistance \/ distance = 0 THEN default ELSE distance)
legacy_thresholds(min_space_distance, add_space_distance) ==
    [min_space_distance |-> distance_or(min_space_distance, default_min_space_distance),
     add_space_distance |-> distance_or(add_space_distance, default_add_space_distance),
     add_tab_distance |-> length_of(legacy_add_tab_distance)]

\* The decision _apply_center_distance_filtering calls as
\* _should_add_space_after (specification, 4.3: nothing is inserted before
\* the end of the line or a literal space, else a space from insert_space on);
\* should_add_space_after of the tests.
should_add_space_after(char_data, idx, add_space_distance) ==
    IF idx >= Len(char_data) - 1 THEN FALSE
    ELSE LET current_char == char_data[idx + 1]
             next_char == char_data[idx + 2]
             distance == next_char.center - current_char.center
         IN  IF next_char.is_space THEN FALSE
             ELSE at_least(distance, add_space_distance)

\* PDFPlumberProcessor._apply_center_distance_filtering, on a processor that
\* has the methods ms: self._should_add_space_after (line 348) is reached at
\* the first character that is no space, and raises AttributeError when the
\* processor has no such method.
apply_center_distance_filtering(char_data, min_space_distance, add_space_distance, ms) ==
    LET appended(i) ==
            IF char_data[i + 1].is_space
            THEN IF should_keep_space(char_data, i, min_space_distance)
                 THEN <<" ">> ELSE <<>>
            ELSE <<char_data[i + 1].text>>
                 \o (IF should_add_space_after(char_data, i, add_space_distance)
                     THEN <<" ">> ELSE <<>>)
    IN  IF /\ "_should_add_space_after" \notin ms
           /\ \E i \in 1..Len(char_data) : ~char_data[i].is_space
        THEN Raised
        ELSE Str(flatten([i \in 1..Len(char_data) |-> appended(i - 1)]))

\* PDFPlumberProcessor._process_line_with_fixed_filtering, on a processor
\* whose distances are ts and that has the methods ms.
process_line_with_fixed_filtering(line_chars, ts, ms) ==
    IF line_chars = <<>> THEN Str(<<>>)
    ELSE apply_center_distance_filtering(char_data_of(line_chars),
             ts.min_space_distance, ts.add_space_distance, ms)

\* Bound of the number of characters of a line.
MaxLineChars == 4

\* The characters of a line: 'b' is two units wide, the others one, so that
\* centers lie half a unit apart too; a line comes from
\* _group_characters_by_line, so its x0 never decreases.
LineGlyphTexts == {"a", "b", " "}
LineXCoords == {0, 4, 10, 11, 32, 60}
glyph_width(t) == IF t = "b" THEN 2 ELSE 1
glyph(t, x, y) == [text |-> t, x0 |-> x, x1 |-> x + glyph_width(t), y1 |-> y]
LineChars(n) ==
    {[i \in 1..n |-> glyph(ts[i], xs[i], 0)] :
        ts \in [1..n -> LineGlyphTexts],
        xs \in {f \in [1..n -> LineXCoords] :
                   \A i \in 1..(n - 1) : f[i] <= f[i + 1]}}

\* The pitches a synthesized text is laid out at to be synthesized again.
LayoutPitches == {1, 30}

\* One glyph per character of a text, side by side at the given pitch.
laid_out(s, pitch) ==
    [i \in 1..Len(s) |->
        [text |-> s[i], x0 |-> (i - 1) * pitch, x1 |-> i * pitch, y1 |-> 0]]

\* The distances a legacy processor is constructed with, in 1/units: not
\* given or 9.0 to keep a space, 0 or 15.0 to insert one.
LegacyMinSpaceDistances == {NoDistance, 1800}
LegacyAddSpaceDistances == {0, 3000}

\* _calculate_average_character_spacing(char_data), char_data being that of
\* a line, the empty one included.
CalculateAverageCharacterSpacing ==
    /\ pc = "idle"
    /\ \E n \in 0..MaxLineChars : \E line_chars \in LineChars(n) :
          /\ chars' = line_chars
          /\ avg_char_spacing' =
                 calculate_average_character_spacing(char_data_of(line_chars))
    /\ pc' = "calculate_average_character_spacing"
    /\ UNCHANGED <<extract_vars, parse_vars, lines, char_index, keep_space>>
    /\ UNCHANGED <<separator, thresholds, adaptive, methods, raised>>
    /\ UNCHANGED <<matches, multi_vars, evals, file_vars, voyage_vars>>

\* processor._process_line_with_adaptive_filtering(line_chars), on a
\* processor as it stands or with the two methods: the pitch and the
\* distances are the locals of lines 275-280, which the empty line does not
\* reach; text is the returned text, if one is returned.
ProcessLineWithAdaptiveFiltering ==
    /\ pc = "idle"
    /\ \E ms \in Processors :
       \E n \in 0..MaxLineChars : \E line_chars \in LineChars(n) :
          LET spacing == calculate_average_character_spacing(char_data_of(line_chars))
              returned == process_line_with_adaptive_filtering(line_chars, ms)
          IN  /\ methods' = ms
              /\ chars' = line_chars
              /\ avg_char_spacing' =
                     IF line_chars = <<>> THEN avg_char_spacing ELSE spacing
              /\ thresholds' =
                     IF line_chars = <<>> THEN thresholds
                     ELSE adaptive_thresholds(spacing)
              /\ text' = returned.val
              /\ raised' = returned.raised
    /\ adaptive' = TRUE
    /\ pc' = "process_line_with_adaptive_filtering"
    /\ UNCHANGED <<pattern, keyword_pos, target_pos, result, parse_vars, lines>>
    /\ UNCHANGED <<char_index, keep_space, separator, matches, multi_vars, evals, file_vars, voyage_vars>>

\* PDFPlumberProcessor(min_space_distance, add_space_distance)
\* ._process_line_with_fixed_filtering(line_chars)
ProcessLineWithFixedFiltering ==
    /\ pc = "idle"
    /\ \E min_space_distance \in LegacyMinSpaceDistances :
       \E add_space_distance \in LegacyAddSpaceDistances :
          /\ ~adaptive_mode(min_space_distance, add_space_distance)
          /\ \E ms \in Processors :
             \E n \in 0..MaxLineChars : \E line_chars \in LineChars(n) :
                LET ts == legacy_thresholds(min_space_distance, add_space_distance)
                    returned == process_line_with_fixed_filtering(line_chars, ts, ms)
                IN  /\ methods' = ms
                    /\ chars' = line_chars
                    /\ thresholds' = ts
                    /\ text' = returned.val
                    /\ raised' = returned.raised
    /\ adaptive' = FALSE
    /\ pc' = "process_line_with_fixed_filtering"
    /\ UNCHANGED <<pattern, keyword_pos, target_pos, result, parse_vars, lines>>
    /\ UNCHANGED <<avg_char_spacing, char_index, keep_space, separator>>
    /\ UNCHANGED <<matches, multi_vars, evals, file_vars, voyage_vars>>

\* The text a synthesis has returned, one glyph per character, is
\* synthesized again by the same processor.
ProcessSynthesizedText ==
    /\ pc = "process_line_with_adaptive_filtering"
    /\ ~raised
    /\ \E pitch \in LayoutPitches :
          /\ lines' = <<laid_out(text, pitch)>>
          /\ result' = process_line_with_adaptive_filtering(laid_out(text, pitch),
                                                            methods)
    /\ pc' = "process_synthesized_text"
    /\ UNCHANGED <<text, pattern, keyword_pos, target_pos, parse_vars, chars>>
    /\ UNCHANGED <<synth_vars, matches, multi_vars, evals, file_vars, voyage_vars>>

\* processor._should_keep_space(char_data, space_index, min_space_distance),
\* as the adaptive mode calls it for a space of the line.
ShouldKeepSpace ==
    /\ pc = "idle"
    /\ \E n \in 0..MaxLineChars : \E line_chars \in LineChars(n) :
          \E space_index \in 0..(Len(line_chars) - 1) :
             LET char_data == char_data_of(line_chars)
                 spacing == calculate_average_character_spacing(char_data)
             IN  /\ char_data[space_index + 1].is_space
                 /\ chars' = line_chars
                 /\ avg_char_spacing' = spacing
                 /\ char_index' = space_index
                 /\ keep_space' = should_keep_space(char_data, space_index,
                                      threshold(spacing, min_space_ratio))
    /\ pc' = "should_keep_space"
    /\ adaptive' = TRUE
    /\ UNCHANGED <<extract_vars, parse_vars, lines, separator, thresholds>>
    /\ UNCHANGED <<methods, raised>>
    /\ UNCHANGED <<matches, multi_vars, evals, file_vars, voyage_vars>>

\* get_separator_to_add(char_data, char_index, add_space_distance,
\* add_tab_distance, ...), as the adaptive mode of a processor that has the
\* two methods calls it for a non-space character of the line.
GetSeparatorToAdd ==
    /\ pc = "idle"
    /\ \E n \in 0..MaxLineChars : \E line_chars \in LineChars(n) :
          \E idx \in 0..(Len(line_chars) - 1) :
             LET char_data == char_data_of(line_chars)
                 spacing == calculate_average_character_spacing(char_data)
             IN  /\ ~char_data[idx + 1].is_space
                 /\ chars' = line_chars
                 /\ avg_char_spacing' = spacing
                 /\ char_index' = idx
                 /\ thresholds' = adaptive_thresholds(spacing)
                 /\ separator' = get_separator_to_add(char_data, idx,
                                     threshold(spacing, add_space_ratio),
                                     threshold(spacing, add_tab_ratio))
    /\ pc' = "get_separator_to_add"
    /\ adaptive' = TRUE
    /\ methods' = MissingMethods
    /\ UNCHANGED raised
    /\ UNCHANGED <<extract_vars, parse_vars, lines, keep_space>>
    /\ UNCHANGED <<matches, multi_vars, evals, file_vars, voyage_vars>>

NextLine ==
    \/ CalculateAverageCharacterSpacing
    \/ ProcessLineWithAdaptiveFiltering
    \/ ProcessLineWithFixedFiltering
    \/ ProcessSynthesizedText
    \/ ShouldKeepSpace
    \/ GetSeparatorToAdd

SpecLine == Init /\ [][NextLine]_vars

----------------------------------------------------------------------------
(* PDFPlumberProcessor._extract_page_with_filtering                        *)

\* A slip: every line is kept.
keep_line_any(line_text) == TRUE

\* if line_text.strip()
keep_line(line_text) == strip(line_text) /= <<>>

\* '\n'.join(processed_lines)
RECURSIVE join_newline(_)
join_newline(ls) ==
    IF ls = <<>> THEN <<>>
    ELSE IF Len(ls) = 1 THEN ls[1]
    ELSE ls[1] \o <<"\n">> \o join_newline(Tail(ls))

\* Lines 217-220: the text of a line in the mode of the processor, whose
\* distances are ts in the legacy mode and which has the methods ms.
line_text_of(line_chars, adaptive_mode_on, ts, ms) ==
    IF adaptive_mode_on THEN process_line_with_adaptive_filtering(line_chars, ms)
    ELSE process_line_with_fixed_filtering(line_chars, ts, ms)

\* PDFPlumberProcessor._extract_page_with_filtering: the exception of a line
\* is not caught.
extract_page_with_filtering(cs, adaptive_mode_on, ts, ms) ==
    IF cs = <<>> THEN Str(<<>>)
    ELSE LET ls == group_characters_by_line(cs)
             returned == [l \in 1..Len(ls) |->
                             line_text_of(ls[l], adaptive_mode_on, ts, ms)]
             line_texts == [l \in 1..Len(ls) |-> returned[l].val]
         IN  IF \E l \in 1..Len(ls) : returned[l].raised THEN Raised
             ELSE Str(join_newline(SelectSeq(line_texts, keep_line)))

\* Bound of the number of characters of a page.
MaxPageChars == 3

\* The characters of a page, on up to three lines.
PageGlyphTexts == {"a", "b", " "}
PageXCoords == {0, 10}
PageYCoords == {0, 3, 6}
PageCharacters ==
    {glyph(t, x, y) : t \in PageGlyphTexts, x \in PageXCoords, y \in PageYCoords}

\* PDFPlumberProcessor(min_space_distance)._extract_page_with_filtering(page),
\* chars being page.chars, on a processor as it stands or with the two
\* methods; a processor in adaptive mode has no distances.
ExtractPageWithFiltering ==
    /\ pc = "idle"
    /\ \E min_space_distance \in LegacyMinSpaceDistances :
       \E add_space_distance \in {NoDistance} :
          LET mode == adaptive_mode(min_space_distance, add_space_distance)
              ts == IF mode THEN thresholds
                    ELSE legacy_thresholds(min_space_distance, add_space_distance)
          IN  /\ adaptive' = mode
              /\ thresholds' = ts
              /\ \E ms \in Processors :
                 \E cs \in SeqsUpTo(PageCharacters, MaxPageChars) :
                    LET returned == extract_page_with_filtering(cs, mode, ts, ms)
                    IN  /\ methods' = ms
                        /\ chars' = cs
                        /\ lines' = IF cs = <<>> THEN <<>>
                                    ELSE group_characters_by_line(cs)
                        /\ text' = returned.val
                        /\ raised' = returned.raised
    /\ pc' = "extract_page_with_filtering"
    /\ UNCHANGED <<pattern, keyword_pos, target_pos, result, parse_vars>>
    /\ UNCHANGED <<avg_char_spacing, char_index, keep_space, separator>>
    /\ UNCHANGED <<matches, multi_vars, evals, file_vars, voyage_vars>>

NextPage ==
    \/ GroupCharactersByLine
    \/ ExtractPageWithFiltering

SpecPage == Init /\ [][NextPage]_vars

\* The lists that hold the members of cs in another order.
reordered(cs) ==
    {[i \in 1..Len(cs) |-> cs[f[i]]] : f \in Permutations(1..Len(cs))}

\* C11: the lines and the page text depend only on which characters the page
\* has, not on their order in the list: every reordering of the characters
\* gives the same lines, with the same order of characters, and the same text.
C11_OrderOfCharactersIgnored ==
    pc = "extract_page_with_filtering" =>
        \A other \in reordered(chars) :
            /\ group_characters_by_line(other) = lines
            /\ LET returned == extract_page_with_filtering(other, adaptive,
                                                           thresholds, methods)
               IN  returned.val = text /\ returned.raised = raised

\* C12: a page without characters gives no lines and the empty string, and
\* nothing is raised.
C12_EmptyPage ==
    /\ (pc = "group_characters_by_line" /\ chars = <<>>) => lines = <<>>
    /\ (pc = "extract_page_with_filtering" /\ chars = <<>>) =>
           text = <<>> /\ ~raised

\* C12's case: the page without characters has been extracted.
C12_Witness ==
    /\ pc = "extract_page_with_filtering"
    /\ chars = <<>>
    /\ text = <<>>
    /\ ~raised
    /\ methods = {}

\* The lines of a page text: none for the empty text.
text_lines(s) == IF s = <<>> THEN <<>> ELSE split_on(s, "\n")

has_non_whitespace(s) == \E j \in 1..Len(s) : s[j] \notin {" ", "\t", "\n"}

\* C17: no line of the text returned for a page is empty or made of
\* whitespace only, and the lines of the text are the synthesized strings of
\* the grouped lines that have a non-whitespace character, in top-to-bottom
\* order.
C17_NoBlankLine ==
    (pc = "extract_page_with_filtering" /\ ~raised) =>
        /\ \A i \in 1..Len(text_lines(text)) : has_non_whitespace(text_lines(text)[i])
        /\ text_lines(text) =
               SelectSeq([l \in 1..Len(lines) |->
                             line_text_of(lines[l], adaptive, thresholds, methods).val],
                         has_non_whitespace)

\* C17's case: of three grouped lines the middle one holds only a space, and
\* the text has the two other lines, in the legacy mode.
C17_Witness ==
    /\ pc = "extract_page_with_filtering"
    /\ ~raised
    /\ ~adaptive
    /\ Len(lines) = 3
    /\ \A i \in 1..Len(lines[2]) : lines[2][i].text = " "
    /\ Len(text_lines(text)) = 2

----------------------------------------------------------------------------
(* Claims about the line synthesis, stated on the line's characters.       *)

\* Twice the center of the i-th character (1-based) of chars.
center2(i) == chars[i].x0 + chars[i].x1

\* The places of the non-space glyphs of chars, and the nearest non-space
\* glyph before and after a place.
glyph_places == {i \in 1..Len(chars) : chars[i].text /= " "}
glyphs_before(i) == {j \in glyph_places : j < i}
glyphs_after(i) == {j \in glyph_places : j > i}

\* Twice the distance from the non-space glyph at place i to the next
\* non-space glyph; the places whose distance is neither <= 0 nor >= 50.
gap2(i) == center2(Min(glyphs_after(i))) - center2(i)
plausible_gaps == {i \in glyph_places :
                      glyphs_after(i) /= {} /\ gap2(i) > 0 /\ gap2(i) < 100}

\* The k-th smallest of the plausible distances (doubled), k from 1.
kth_gap2(k) ==
    CHOOSE v \in {gap2(i) : i \in plausible_gaps} :
        /\ Cardinality({i \in plausible_gaps : gap2(i) < v}) < k
        /\ k <= Cardinality({i \in plausible_gaps : gap2(i) <= v})

\* C13: the pitch is the median of the plausible distances between
\* consecutive non-space glyphs (the mean of the two middle ones for an even
\* count), and 4.8 when there is no plausible distance: as
\* _calculate_average_character_spacing returns it, and as the adaptive
\* synthesis of a line with a character holds it.
C13_PitchIsMedian ==
    (\/ pc = "calculate_average_character_spacing"
     \/ pc = "process_line_with_adaptive_filtering" /\ chars /= <<>>) =>
        LET n == Cardinality(plausible_gaps)
        IN  IF n = 0 THEN 5 * avg_char_spacing = 24 * units
            ELSE 4 * avg_char_spacing =
                     units * (kth_gap2((n + 1) \div 2) + kth_gap2(n \div 2 + 1))

\* C13's case: two plausible distances that differ, and a third one of 50 or
\* more that is left out.
C13_Witness ==
    /\ pc = "process_line_with_adaptive_filtering"
    /\ Cardinality(plausible_gaps) = 2
    /\ kth_gap2(1) < kth_gap2(2)
    /\ \E i \in glyph_places : glyphs_after(i) /= {} /\ gap2(i) >= 100

\* Twice the distance between the nearest non-space glyphs around place i.
around2(i) == center2(Min(glyphs_after(i))) - center2(Max(glyphs_before(i)))

\* C14: a space without a non-space glyph before it or after it is kept;
\* another space is kept iff the distance between its nearest non-space
\* glyphs is at least 1.3 times the pitch of the line.
C14_SpaceKeptFromThreshold ==
    pc = "should_keep_space" =>
        LET i == char_index + 1
        IN  keep_space <=>
                \/ glyphs_before(i) = {}
                \/ glyphs_after(i) = {}
                \/ 10 * (units * around2(i)) >= 13 * (2 * avg_char_spacing)

\* C14's case: a space between two glyphs exactly 1.3 pitches apart is kept.
C14_Witness ==
    /\ pc = "should_keep_space"
    /\ keep_space
    /\ glyphs_before(char_index + 1) /= {}
    /\ glyphs_after(char_index + 1) /= {}
    /\ 10 * (units * around2(char_index + 1)) = 13 * (2 * avg_char_spacing)

\* What the kept literal spaces from place p to place q of the line leave in
\* the text: one space for each space _should_keep_space keeps.
kept_spaces(p, q) ==
    flatten([k \in 1..(q - p + 1) |->
                IF /\ chars[p + k - 1].text = " "
                   /\ should_keep_space(char_data_of(chars), p + k - 2,
                                        thresholds.min_space_distance)
                THEN <<space_char>> ELSE <<>>])

\* The place in a returned text of the glyph at place i of the line, the
\* glyphs being kept in order, and what the text has after that glyph, up to
\* the next glyph of the line or the end of the text.
place_in(s, i) ==
    LET k == Cardinality(glyphs_before(i)) + 1
        places == {q \in 1..Len(s) : s[q] \notin {space_char, tab_char}}
    IN  CHOOSE q \in places : Cardinality({r \in places : r < q}) = k - 1
emitted_after(i) ==
    IF glyphs_after(i) = {} THEN SubSeq(text, place_in(text, i) + 1, Len(text))
    ELSE SubSeq(text, place_in(text, i) + 1,
                place_in(text, Min(glyphs_after(i))) - 1)

\* C15: the adaptive synthesis of a line returns a text in which, after the
\* last glyph of the line and after a glyph before a literal space, nothing
\* is inserted (only the literal spaces that are kept follow); after another
\* glyph, d being the distance to the next glyph, exactly a tab follows if d
\* is at least insert_boundary, else exactly a space if d is at least
\* insert_space, else nothing; insert_boundary and insert_space are the
\* products of the pitch with 1.3 and 1.1 as the code computes them.
C15_SeparatorByDistance ==
    (pc = "process_line_with_adaptive_filtering" /\ chars /= <<>>) =>
        LET insert_boundary == thresholds.add_tab_distance
            insert_space == thresholds.add_space_distance
        IN  /\ 10 * insert_boundary.length = 13 * avg_char_spacing
            /\ 10 * insert_space.length = 11 * avg_char_spacing
            /\ insert_boundary.above = rounded_up(avg_char_spacing, 13)
            /\ insert_space.above = rounded_up(avg_char_spacing, 11)
            /\ ~raised
            /\ \A i \in glyph_places :
                  IF i = Len(chars) \/ chars[i + 1].text = " "
                  THEN emitted_after(i) =
                           kept_spaces(i + 1,
                               IF glyphs_after(i) = {} THEN Len(chars)
                               ELSE Min(glyphs_after(i)) - 1)
                  ELSE LET d == (units * (center2(i + 1) - center2(i))) \div 2
                       IN  emitted_after(i) =
                               IF at_least(d, insert_boundary) THEN <<tab_char>>
                               ELSE IF at_least(d, insert_space) THEN <<space_char>>
                               ELSE <<>>

\* C16: the synthesized text of a line, laid out one glyph per character and
\* synthesized again, is returned unchanged.
C16_SynthesisIdempotent ==
    pc = "process_synthesized_text" => result = Str(text)

\* C21: the legacy fixed-distance synthesis of a line, on a processor that
\* has the two methods, is the text the enhanced synthesis of the adaptive
\* mode gives for the same line with the processor's three distances (keep a
\* space, insert a space, insert a tab), the tab between glyphs at least
\* add_tab_distance apart included.
C21_FixedIsAdaptiveWithSameThresholds ==
    (pc = "process_line_with_fixed_filtering" /\ methods = MissingMethods) =>
        text = apply_enhanced_center_distance_filtering(char_data_of(chars),
                   thresholds.min_space_distance, thresholds.add_space_distance,
                   thresholds.add_tab_distance)

\* The separators a synthesis keeps or inserts, a text without them, and the
\* texts of the glyphs of a line that are not spaces, from left to right.
is_separator(c) == c \in {space_char, tab_char}
is_no_separator(c) == ~is_separator(c)
without_separators(s) == SelectSeq(s, is_no_separator)
is_glyph(c) == c.text /= " "
glyph_texts(line_chars) ==
    LET gs == SelectSeq(line_chars, is_glyph)
    IN  [i \in 1..Len(gs) |-> gs[i].text]
synthesized ==
    pc \in {"process_line_with_adaptive_filtering", "process_line_with_fixed_filtering"}

\* C27: the synthesis of a line, adaptive or fixed, returns a text, and the
\* text without its kept and inserted separators is the texts of the line's
\* non-space glyphs from left to right: no glyph is dropped, duplicated or
\* moved.
C27_GlyphsPreserved ==
    synthesized =>
        /\ ~raised
        /\ without_separators(text) = glyph_texts(chars)

\* The line without the characters strictly between places i and j, and the
\* synthesis that has run, by the same processor on another line.
closed_up(i, j) == SubSeq(chars, 1, i) \o SubSeq(chars, j, Len(chars))
synthesis_of(line_chars) ==
    IF pc = "process_line_with_fixed_filtering"
    THEN process_line_with_fixed_filtering(line_chars, thresholds, methods)
    ELSE process_line_with_adaptive_filtering(line_chars, methods)
spaced_pairs ==
    {p \in glyph_places \X glyph_places :
        /\ glyphs_after(p[1]) /= {}
        /\ p[2] = Min(glyphs_after(p[1]))
        /\ p[2] > p[1] + 1}
between_insert_and_keep(i, j) ==
    LET d == (units * (center2(j) - center2(i))) \div 2
    IN  /\ at_least(d, thresholds.add_space_distance)
        /\ ~at_least(d, thresholds.min_space_distance)

\* C28: of a line that has two glyphs with literal spaces between them, at a
\* center distance from add_space_distance up to but not including
\* min_space_distance, the synthesis returns a text in which the two are
\* adjacent (the spaces are dropped and nothing is inserted), while the
\* synthesis of the same line without those spaces returns a text with
\* exactly one plain space between the two glyphs.
C28_DroppedSpaceNotReplaced ==
    synthesized =>
        \A p \in spaced_pairs :
            between_insert_and_keep(p[1], p[2]) =>
                /\ ~raised
                /\ place_in(text, p[2]) = place_in(text, p[1]) + 1
                /\ LET closed == synthesis_of(closed_up(p[1], p[2]))
                       q == place_in(closed.val, p[1])
                   IN  /\ ~closed.raised
                       /\ closed.val[q + 1] = space_char
                       /\ ~is_separator(closed.val[q + 2])

\* The lines of exactly two glyphs with at least one literal space between
\* them, and the characters of a text strictly between two places.
two_glyphs_spaced ==
    /\ Cardinality(glyph_places) = 2
    /\ Max(glyph_places) > Min(glyph_places) + 1
strictly_between(s, p, q) == SubSeq(s, p + 1, q - 1)

\* C30: in the adaptive mode the synthesis of a line of exactly two glyphs
\* with literal spaces between them returns a text; the glyphs' centers being
\* d apart, when 0 < d < 50 the pitch is d and the two glyphs are adjacent in
\* the text (the spaces are dropped, nothing is inserted); when d >= 50 the
\* pitch is the fallback and every space between them is kept; the spaces
\* are kept in no other case.
C30_TwoGlyphLineLosesItsSpace ==
    (pc = "process_line_with_adaptive_filtering" /\ two_glyphs_spaced) =>
        /\ ~raised
        /\ LET i == Min(glyph_places)
               j == Max(glyph_places)
               d2 == center2(j) - center2(i)
               between == strictly_between(text, place_in(text, i), place_in(text, j))
           IN  /\ (0 < d2 /\ d2 < 100) =>
                      /\ 2 * avg_char_spacing = units * d2
                      /\ between = <<>>
               /\ d2 >= 100 =>
                      /\ avg_char_spacing = fallback_spacing
                      /\ between = [k \in 1..(j - i - 1) |-> space_char]
               /\ d2 < 100 => between = <<>>

----------------------------------------------------------------------------
(* PatternExtractor.extract_multiple_patterns                              *)

\* The returned list, and the exception of an extract_pattern that raised.
ResultList(rs) == [raised |-> FALSE, val |-> rs]
RaisedList == [raised |-> TRUE, val |-> <<>>]

\* A slip: only the results that are not None are appended.
extract_multiple_patterns_found(txt, pats) ==
    LET rs == [i \in 1..Len(pats) |-> extract_pattern(txt, pats[i])]
        is_found(r) == r.some
    IN  ResultList(SelectSeq(rs, is_found))

\* PatternExtractor.extract_multiple_patterns
extract_multiple_patterns(txt, pats) ==
    LET rs == [i \in 1..Len(pats) |-> extract_pattern(txt, pats[i])]
    IN  IF \E i \in 1..Len(pats) : rs[i].raised THEN RaisedList ELSE ResultList(rs)

\* Bound of the number of patterns of a list.
MaxPatterns == 2

\* The texts and patterns the lists are evaluated on.
MultiTexts ==
    {<<>>, <<"A">>, <<"A", " ", "1">>, <<"A", "\n", "1">>, <<"1", " ", "A">>,
     <<"B", " ", "A", " ", "1">>}
MultiPatterns ==
    [keyword : {<<"a">>, <<"b">>}, direction : {"right", "below"},
     distance : {0, 1}, extract_type : {"word", "line"}]

\* extractor.extract_multiple_patterns(text, patterns)
ExtractMultiplePatterns ==
    /\ pc = "idle"
    /\ \E t \in MultiTexts, ps \in SeqsUpTo(MultiPatterns, MaxPatterns) :
          /\ text' = t
          /\ patterns' = ps
          /\ results' = extract_multiple_patterns(t, ps)
    /\ pc' = "extract_multiple_patterns"
    /\ UNCHANGED <<pattern, keyword_pos, target_pos, result, parse_vars, group_vars>>
    /\ UNCHANGED <<synth_vars, matches, evals, file_vars, voyage_vars>>

NextMulti == ExtractMultiplePatterns

SpecMulti == Init /\ [][NextMulti]_vars

\* C18: the returned list is as long as the list of patterns, and its i-th
\* member is what extract_pattern returns for the text and the i-th pattern,
\* None included, which is also what the list of that one pattern gives.
C18_OneResultPerPattern ==
    pc = "extract_multiple_patterns" =>
        /\ ~results.raised
        /\ Len(results.val) = Len(patterns)
        /\ \A i \in 1..Len(patterns) :
              /\ results.val[i] = extract_pattern(text, patterns[i])
              /\ results.val[i] = extract_multiple_patterns(text, <<patterns[i]>>).val[1]

\* C18's case: the first of two patterns failed and the second one did not.
C18_Witness ==
    /\ pc = "extract_multiple_patterns"
    /\ Len(patterns) = 2
    /\ results = ResultList(<<NoneStr, Str(<<"1">>)>>)

----------------------------------------------------------------------------
(* Evaluations of one pattern on one shared PatternExtractor, interleaved. *)
(* An evaluation is a call of extract_pattern; its text and its locals     *)
(* keyword_pos and target_pos belong to the call, and the extractor's only *)
(* fields, the compiled expressions of __init__, are never assigned.       *)

Evaluations == {1, 2}

\* The call extract_pattern(text, pattern) before its first statement.
called(t) ==
    [text |-> t, stage |-> "called", keyword_pos |-> NoneKw, target_pos |-> NonePos,
     result |-> NoneStr]

\* A slip: keyword_pos is kept on the extractor, where the first evaluation's
\* value is the one every evaluation reads.
keyword_pos_on_extractor(es, e) == es[1].keyword_pos

\* keyword_pos, a local of the call.
keyword_pos_of(es, e) == es[e].keyword_pos

\* extractor.extract_pattern(text, pattern) is called for each text.
CallExtractPattern ==
    /\ pc = "idle"
    /\ \E p \in MultiPatterns, ts \in [Evaluations -> MultiTexts] :
          /\ pattern' = p
          /\ evals' = [e \in Evaluations |-> called(ts[e])]
    /\ pc' = "evaluating"
    /\ UNCHANGED <<text, keyword_pos, target_pos, result, parse_vars, group_vars>>
    /\ UNCHANGED <<synth_vars, matches, multi_vars, file_vars, voyage_vars>>

\* Lines 43-45: keyword_pos = self._find_keyword_position(text, keyword)
EvalFindKeyword(e) ==
    /\ pc = "evaluating"
    /\ evals[e].stage = "called"
    /\ LET kw == find_keyword_position(evals[e].text, pattern.keyword)
       IN  evals' = [evals EXCEPT ![e] =
                        IF kw.some
                        THEN [@ EXCEPT !.stage = "found", !.keyword_pos = kw]
                        ELSE [@ EXCEPT !.stage = "returned", !.result = NoneStr]]
    /\ UNCHANGED <<pc, extract_vars, parse_vars, group_vars>>
    /\ UNCHANGED <<synth_vars, matches, multi_vars, file_vars, voyage_vars>>

\* Lines 48-52: target_pos = self._calculate_target_position(...)
EvalCalculateTarget(e) ==
    /\ pc = "evaluating"
    /\ evals[e].stage = "found"
    /\ LET tgt == calculate_target_position(evals[e].text, keyword_pos_of(evals, e),
                                            pattern.direction, pattern.distance)
       IN  evals' = [evals EXCEPT ![e] =
                        IF tgt.raised
                        THEN [@ EXCEPT !.stage = "returned", !.result = Raised]
                        ELSE IF tgt.some
                        THEN [@ EXCEPT !.stage = "targeted", !.target_pos = tgt]
                        ELSE [@ EXCEPT !.stage = "returned", !.result = NoneStr]]
    /\ UNCHANGED <<pc, extract_vars, parse_vars, group_vars>>
    /\ UNCHANGED <<synth_vars, matches, multi_vars, file_vars, voyage_vars>>

\* Line 55: return self._extract_content(text, target_pos, extract_type)
EvalExtractContent(e) ==
    /\ pc = "evaluating"
    /\ evals[e].stage = "targeted"
    /\ evals' = [evals EXCEPT ![e] =
                    [@ EXCEPT !.stage = "returned",
                              !.result = extract_content(evals[e].text,
                                             evals[e].target_pos, pattern.extract_type)]]
    /\ UNCHANGED <<pc, extract_vars, parse_vars, group_vars>>
    /\ UNCHANGED <<synth_vars, matches, multi_vars, file_vars, voyage_vars>>

NextEval ==
    \/ CallExtractPattern
    \/ \E e \in Evaluations : EvalFindKeyword(e)
    \/ \E e \in Evaluations : EvalCalculateTarget(e)
    \/ \E e \in Evaluations : EvalExtractContent(e)

SpecEval == Init /\ [][NextEval]_vars

\* C19: however the evaluations of one pattern on several texts interleave,
\* each returns what extract_pattern returns for its text alone, and no step
\* of an evaluation changes the pattern or a text.
C19_EvaluationsIndependent ==
    /\ [](pc = "evaluating" =>
            \A e \in Evaluations :
                evals[e].stage = "returned" =>
                    evals[e].result = extract_pattern(evals[e].text, pattern))
    /\ [][pc = "evaluating" =>
            /\ pattern' = pattern
            /\ \A e \in Evaluations : evals'[e].text = evals[e].text]_vars

\* C19's case: the first evaluation has returned a value while the second,
\* on another text, is between two of its steps.
C19_Witness ==
    /\ pc = "evaluating"
    /\ evals[1].stage = "returned"
    /\ evals[1].result = Str(<<"1">>)
    /\ evals[2].stage = "targeted"
    /\ evals[2].text /= evals[1].text

----------------------------------------------------------------------------
(* cli.parse_patterns_file                                                 *)

\* The returned list of patterns, and the None returned for an invalid line.
SomePatterns(ps) == [some |-> TRUE, val |-> ps]
NonePatterns == [some |-> FALSE, val |-> <<>>]

\* for line in f: the lines of the file's content, without their ends.
lines_of_file(content) ==
    LET pieces == split_on(content, "\n")
    IN  IF pieces[Len(pieces)] = <<>> THEN SubSeq(pieces, 1, Len(pieces) - 1)
        ELSE pieces

\* A slip: an invalid line ends the reading with the patterns found so far.
invalid_line_partial(ps) == SomePatterns(ps)

\* except ValueError: ... return None
invalid_line(ps) == NonePatterns

\* The loop of lines 55-63 over the rest of the lines.
RECURSIVE parse_lines(_, _)
parse_lines(rest, ps) ==
    IF rest = <<>> THEN SomePatterns(ps)
    ELSE LET line == strip(rest[1])
         IN  IF line /= <<>> /\ line[1] /= "#"
             THEN LET p == parse_pattern(line)
                  IN  IF p.ok THEN parse_lines(Tail(rest), Append(ps, p))
                      ELSE invalid_line(ps)
             ELSE parse_lines(Tail(rest), ps)

\* cli.parse_patterns_file, for the content of the file at file_path.
parse_patterns_file(content) == parse_lines(lines_of_file(content), <<>>)

\* Bound of the number of lines of a file.
MaxFileLines == 3

\* The lines of a file: empty, blank, two comments, two patterns and two
\* invalid patterns.
FileLines ==
    {<<>>,
     <<" ">>,
     <<"#", "a", ":", "r", "i", "g", "h", "t", ":", "0", ":", "w", "o", "r", "d">>,
     <<" ", "#", " ", "a">>,
     <<"a", ":", "r", "i", "g", "h", "t", ":", "0", ":", "w", "o", "r", "d">>,
     <<" ", "b", ":", "b", "e", "l", "o", "w", ":", "1", ":", "l", "i", "n", "e", " ">>,
     <<"a", ":", "u", "p", ":", "0", ":", "w", "o", "r", "d">>,
     <<"a", ":", "r", "i", "g", "h", "t">>}

\* parse_patterns_file(file_path)
ParsePatternsFile ==
    /\ pc = "idle"
    /\ \E ls \in SeqsUpTo(FileLines, MaxFileLines), last_end \in {<<>>, <<"\n">>} :
          LET content == join_newline(ls) \o last_end
          IN  /\ file' = content
              /\ file_patterns' = parse_patterns_file(content)
    /\ pc' = "parse_patterns_file"
    /\ UNCHANGED <<extract_vars, parse_vars, group_vars>>
    /\ UNCHANGED <<synth_vars, matches, multi_vars, evals, voyage_vars>>

NextFile == ParsePatternsFile

SpecFile == Init /\ [][NextFile]_vars

\* The lines of the file that are neither blank nor comments, trimmed, in
\* file order.
pattern_lines ==
    LET trimmed == [i \in 1..Len(split_on(file, "\n")) |-> strip(split_on(file, "\n")[i])]
        is_pattern_line(l) == l /= <<>> /\ l[1] /= "#"
    IN  SelectSeq(trimmed, is_pattern_line)

\* C20: when every line that is neither blank nor a comment is a valid
\* pattern, the result is the list of these lines' patterns in file order;
\* when one of them is invalid the result is None.
C20_AllPatternsOrNone ==
    pc = "parse_patterns_file" =>
        IF \A i \in 1..Len(pattern_lines) : parse_pattern(pattern_lines[i]).ok
        THEN file_patterns =
                 SomePatterns([i \in 1..Len(pattern_lines) |->
                                  parse_pattern(pattern_lines[i])])
        ELSE file_patterns = NonePatterns

\* C20's case: a valid pattern, a comment, and then an invalid line: None.
C20_Witness ==
    /\ pc = "parse_patterns_file"
    /\ Len(pattern_lines) = 2
    /\ parse_pattern(pattern_lines[1]).ok
    /\ ~parse_pattern(pattern_lines[2]).ok
    /\ Len(split_on(file, "\n")) >= 3
    /\ file_patterns = NonePatterns


----------------------------------------------------------------------------
(* aml_voyage_log_parser: the patterns of voyage_patterns.py. A line is    *)
(* matched after str.strip(), so it never ends with a newline and '$' is   *)
(* the end of the line.                                                    *)

UpperLetters ==
    {"A", "B", "C", "D", "E", "F", "G", "H", "I", "J", "K", "L", "M",
     "N", "O", "P", "Q", "R", "S", "T", "U", "V", "W", "X", "Y", "Z"}

\* alias_label_rgx, tug_label_rgx, barge_label_rgx, arrival_label_rgx and
\* departure_label_rgx: .match(line)
alias_label == <<"A", "l", "i", "a", "s", ":">>
tug_label == <<"T", "u", "g", ":">>
barge_label == <<"B", "a", "r", "g", "e", ":">>
arrival_label == <<"A", "r", "r", "i", "v", "a", "l">>
departure_label == <<"D", "e", "p", "a", "r", "t", "u", "r", "e">>
alias_label_rgx(line) == line = alias_label
tug_label_rgx(line) == line = tug_label
barge_label_rgx(line) == line = barge_label
arrival_label_rgx(line) == line = arrival_label
departure_label_rgx(line) == line = departure_label

\* port_code_rgx.match(line): ^[A-Z]{3}$
port_code_rgx(line) ==
    Len(line) = 3 /\ \A k \in 1..3 : line[k] \in UpperLetters

\* trip_id_rgx.match(line): ^\d+$
trip_id_rgx(line) ==
    line /= <<>> /\ \A k \in 1..Len(line) : line[k] \in Digits

\* s matches at its start the shape, of which 'd' is a digit and any other
\* character is itself.
starts_with_shape(s, shape) ==
    /\ Len(s) >= Len(shape)
    /\ \A k \in 1..Len(shape) :
          IF shape[k] = "d" THEN s[k] \in Digits ELSE s[k] = shape[k]

\* date_rgx.match(line): \d{2}/\d{2}/\d{4}, and time_rgx.match(line):
\* \d{2}:\d{2}:\d{2}; neither is anchored at the end.
date_rgx(line) ==
    starts_with_shape(line, <<"d", "d", "/", "d", "d", "/", "d", "d", "d", "d">>)
time_rgx(line) ==
    starts_with_shape(line, <<"d", "d", ":", "d", "d", ":", "d", "d">>)

is_metadata_label(line) ==
    alias_label_rgx(line) \/ tug_label_rgx(line) \/ barge_label_rgx(line)
is_section_header(line) ==
    arrival_label_rgx(line) \/ departure_label_rgx(line)
is_structural_marker(line) ==
    is_metadata_label(line) \/ is_section_header(line)

----------------------------------------------------------------------------
(* aml_voyage_log_parser/voyage_schedule_parser.py. Indexes into the lines *)
(* are the 0-based ones of the code.                                       *)

\* collect_port_codes: the loop from index k on.
RECURSIVE collect_port_codes(_, _)
collect_port_codes(ls, k) ==
    IF k >= Len(ls) THEN <<>>
    ELSE LET line == strip(ls[k + 1])
         IN  IF arrival_label_rgx(line) \/ is_structural_marker(line) THEN <<>>
             ELSE (IF port_code_rgx(line) THEN <<line>> ELSE <<>>)
                  \o collect_port_codes(ls, k + 1)

\* The stop of collect_date_time_pairs: departure_label_rgx, or None.
stop_at(stop_pattern, line) ==
    stop_pattern = "departure_label_rgx" /\ departure_label_rgx(line)

\* collect_date_time_pairs: the loop from index k on, with the dates and
\* times collected so far.
RECURSIVE collect_date_time_pairs_from(_, _, _, _, _)
collect_date_time_pairs_from(ls, k, stop_pattern, dates, times) ==
    IF k >= Len(ls) THEN [dates |-> dates, times |-> times, end_idx |-> k]
    ELSE LET line == strip(ls[k + 1])
         IN  IF stop_at(stop_pattern, line)
             THEN [dates |-> dates, times |-> times, end_idx |-> k]
             ELSE IF date_rgx(line)
             THEN collect_date_time_pairs_from(ls, k + 1, stop_pattern,
                                               Append(dates, line), times)
             ELSE IF time_rgx(line)
             THEN collect_date_time_pairs_from(ls, k + 1, stop_pattern,
                                               dates, Append(times, line))
             ELSE [dates |-> dates, times |-> times, end_idx |-> k]

collect_date_time_pairs(ls, start_idx, stop_pattern) ==
    collect_date_time_pairs_from(ls, start_idx, stop_pattern, <<>>, <<>>)

\* combine_dates_and_times: f"{dates[j]} {times[j]}" for the common indexes.
combine_dates_and_times(dates, times) ==
    LET n == IF Len(dates) < Len(times) THEN Len(dates) ELSE Len(times)
    IN  [j \in 1..n |-> dates[j] \o <<" ">> \o times[j]]

\* The search of a section label from index k on: the index of the first
\* line that is the label, or len(lines).
RECURSIVE find_label(_, _, _)
find_label(ls, k, label) ==
    IF k < Len(ls) /\ strip(ls[k + 1]) /= label
    THEN find_label(ls, k + 1, label)
    ELSE k

\* The one element of a set of one element: with the({e(x) : x \in {v}}) the
\* value v is computed once, before e.
the(S) == CHOOSE x \in S : TRUE

\* The times collected after a section label, found from start_idx on; k is
\* the index at which the search of the label ends.
collect_times_after(ls, k, stop_pattern) ==
    IF k >= Len(ls) THEN [times |-> <<>>, end_idx |-> k]
    ELSE the({[times |-> combine_dates_and_times(pairs.dates, pairs.times),
               end_idx |-> pairs.end_idx] :
                 pairs \in {collect_date_time_pairs(ls, k + 1, stop_pattern)}})

collect_times(ls, start_idx, label, stop_pattern) ==
    the({collect_times_after(ls, k, stop_pattern) :
            k \in {find_label(ls, start_idx, label)}})

collect_arrival_times(ls, start_idx) ==
    collect_times(ls, start_idx, arrival_label, "departure_label_rgx")

collect_departure_times(ls, start_idx) ==
    collect_times(ls, start_idx, departure_label, "None")

\* A slip: the last port is given a departure like the others.
departure_of_any(port_codes, departure_times, i_port) ==
    IF i_port < Len(departure_times) THEN departure_times[i_port + 1] ELSE <<>>

\* build_port_schedule: the arrival and the departure of port i_port.
arrival_of(arrival_times, i_port) ==
    IF i_port = 0 THEN <<>>
    ELSE IF i_port - 1 < Len(arrival_times) THEN arrival_times[i_port] ELSE <<>>

departure_of(port_codes, departure_times, i_port) ==
    IF i_port = Len(port_codes) - 1 THEN <<>>
    ELSE IF i_port < Len(departure_times) THEN departure_times[i_port + 1] ELSE <<>>

build_port_schedule(port_codes, arrival_times, departure_times) ==
    [k \in 1..Len(port_codes) |->
        [port |-> port_codes[k],
         arrival |-> arrival_of(arrival_times, k - 1),
         departure |-> departure_of(port_codes, departure_times, k - 1)]]

\* parse_ports_and_schedule, from the arrivals on.
schedule_after_arrivals(ls, start_idx, arrivals) ==
    the({[ports |-> build_port_schedule(collect_port_codes(ls, start_idx),
                                        arrivals.times, departures.times),
          new_index |-> departures.end_idx] :
            departures \in {collect_departure_times(ls, arrivals.end_idx)}})

parse_ports_and_schedule(ls, start_idx) ==
    the({schedule_after_arrivals(ls, start_idx, arrivals) :
            arrivals \in {collect_arrival_times(ls, start_idx)}})

\* Bounds of the lists build_port_schedule is called with.
MaxPorts == 3
MaxTimes == 3

\* Port codes and combined date-time strings.
PortCodes == {<<"A", "B", "C">>, <<"X", "Y", "Z">>}
a_date == <<"0", "1", "/", "0", "2", "/", "2", "0", "2", "4">>
a_time == <<"0", "3", ":", "0", "4", ":", "0", "5">>
another_time == <<"1", "3", ":", "1", "4", ":", "1", "5">>
DateTimes == {a_date \o <<" ">> \o a_time, a_date \o <<" ">> \o another_time}

\* build_port_schedule(port_codes, arrival_times, departure_times)
BuildPortSchedule ==
    /\ pc = "idle"
    /\ \E port_codes \in SeqsUpTo(PortCodes, MaxPorts) :
       \E arrival_times \in SeqsUpTo(DateTimes, MaxTimes) :
       \E departure_times \in SeqsUpTo(DateTimes, MaxTimes) :
          /\ schedule' = [port_codes |-> port_codes, arrival_times |-> arrival_times,
                          departure_times |-> departure_times]
          /\ port_schedule' =
                 build_port_schedule(port_codes, arrival_times, departure_times)
    /\ pc' = "build_port_schedule"
    /\ UNCHANGED <<extract_vars, matches, parse_vars, group_vars>>
    /\ UNCHANGED <<synth_vars, multi_vars, evals, file_vars, region_vars>>

NextSchedule == BuildPortSchedule

SpecSchedule == Init /\ [][NextSchedule]_vars

\* C22: build_port_schedule returns one record per port code, in order;
\* counting ports from 0, port k has the arrival arrival_times[k - 1] when
\* k >= 1 and that index exists, and the departure departure_times[k] when
\* it is not the last port and that index exists; otherwise the field is
\* the empty string, as for the first arrival and the last departure.
C22_SawtoothSchedule ==
    pc = "build_port_schedule" =>
        LET n == Len(schedule.port_codes)
            arrivals == schedule.arrival_times
            departures == schedule.departure_times
        IN  /\ Len(port_schedule) = n
            /\ \A k \in 0..(n - 1) :
                  LET port_data == port_schedule[k + 1]
                  IN  /\ port_data.port = schedule.port_codes[k + 1]
                      /\ port_data.arrival =
                             IF k >= 1 /\ k - 1 < Len(arrivals)
                             THEN arrivals[k] ELSE <<>>
                      /\ port_data.departure =
                             IF k < n - 1 /\ k < Len(departures)
                             THEN departures[k + 1] ELSE <<>>

\* C22's case: three ports with one arrival and three departures; the third
\* port has no arrival left and, being the last, takes no departure.
C22_Witness ==
    /\ pc = "build_port_schedule"
    /\ Len(schedule.port_codes) = 3
    /\ Len(schedule.arrival_times) = 1
    /\ Len(schedule.departure_times) = 3
    /\ port_schedule[2].arrival /= <<>>
    /\ port_schedule[3].arrival = <<>>
    /\ port_schedule[3].departure = <<>>

----------------------------------------------------------------------------
(* aml_voyage_log_parser/voyage_parser_core.py: VoyageParser._parse_region *)
(* One action is one iteration of the main loop: the handler of the state  *)
(* and the i += 1 that follows it.                                         *)

\* A handler's return: the state, the index i, and the voyage it has
\* assigned to.
handled(st, i, voyage) == [state |-> st, i |-> i, current_voyage |-> voyage]

\* A slip: the voyage is appended without being looked at.
append_voyage_any(vs, voyage) == Append(vs, voyage)

\* if current_voyage and current_voyage.route: voyages.append(current_voyage)
append_voyage(vs, voyage) ==
    IF voyage.some /\ voyage.route /= <<>> THEN Append(vs, voyage) ELSE vs

\* VoyageParser._handle_route_id, with the list voyages it appends to.
handle_route_id(line, region_name, voyage, vs) ==
    IF ~is_structural_marker(line)
    THEN [current_voyage |-> create_voyage(region_name, line),
          voyages |-> append_voyage(vs, voyage), state |-> "in_metadata"]
    ELSE [current_voyage |-> voyage, voyages |-> vs, state |-> "expecting_route_id"]

\* current_voyage.add_port for each of the ports.
add_ports(voyage, ports) == [voyage EXCEPT !.ports = voyage.ports \o ports]

\* VoyageParser._handle_metadata
handle_metadata(line, voyage, ls, i, st) ==
    IF alias_label_rgx(line) THEN handled("expecting_alias", i, voyage)
    ELSE IF tug_label_rgx(line) THEN handled("expecting_tug", i, voyage)
    ELSE IF barge_label_rgx(line) THEN handled("expecting_barge", i, voyage)
    ELSE IF trip_id_rgx(line)
    THEN handled("in_metadata", i, [voyage EXCEPT !.trip_id = line])
    ELSE IF arrival_label_rgx(line) \/ port_code_rgx(line)
    THEN the({handled("expecting_route_id", parsed_ports.new_index - 1,
                      add_ports(voyage, parsed_ports.ports)) :
                 parsed_ports \in {parse_ports_and_schedule(ls, i)}})
    ELSE handled(st, i, voyage)

\* A slip: the line that is no value is stepped over.
stepped_over(i) == i

\* return 'in_metadata', i - 1  # Reprocess this line
reprocess(i) == i - 1

\* A slip: the state is left as it is when a line is to be processed again.
handle_alias_again(line, voyage, i) ==
    IF is_metadata_label(line) \/ is_section_header(line)
    THEN handled("expecting_alias", reprocess(i), [voyage EXCEPT !.alias = <<>>])
    ELSE handled("in_metadata", i, [voyage EXCEPT !.alias = line])

\* VoyageParser._handle_alias, _handle_tug and _handle_barge
handle_alias(line, voyage, i) ==
    IF is_metadata_label(line) \/ is_section_header(line)
    THEN handled("in_metadata", reprocess(i), [voyage EXCEPT !.alias = <<>>])
    ELSE handled("in_metadata", i, [voyage EXCEPT !.alias = line])

handle_tug(line, voyage, i) ==
    IF is_metadata_label(line) \/ is_section_header(line)
    THEN handled("in_metadata", reprocess(i), [voyage EXCEPT !.tug = <<>>])
    ELSE handled("in_metadata", i, [voyage EXCEPT !.tug = line])

handle_barge(line, voyage, ls, i) ==
    IF is_metadata_label(line) \/ is_section_header(line)
    THEN handled("in_metadata", reprocess(i), [voyage EXCEPT !.barge = <<>>])
    ELSE IF port_code_rgx(line)
    THEN handled("in_metadata", reprocess(i), [voyage EXCEPT !.barge = <<>>])
    ELSE handled("in_metadata", i, [voyage EXCEPT !.barge = line])

\* Bounds: the number of lines of a region, and the count of the iterations
\* on one line, which stops there.
MaxRegionLines == 4
MaxVisits == 3

\* Bound of the number of lines of a region parsed under fairness.
MaxFairRegionLines == 3

\* The lines of a region, as filter_pollution and split_by_regions leave
\* them: stripped and not empty. The labels, a port code, a trip ID, a
\* date, a time and a free text.
RegionLines ==
    {alias_label, tug_label, barge_label, arrival_label, departure_label,
     <<"A", "B", "C">>, <<"1", "2">>, a_date, a_time, <<"R", "1">>}
region_name == "Central"

\* The line of this iteration: lines[i].strip()
looping == pc = "parse_region" /\ loop_i < Len(region_lines)
line_i == strip(region_lines[loop_i + 1])

\* The iteration counted on the line it is on.
visited ==
    [visits EXCEPT ![loop_i + 1] = IF @ >= MaxVisits THEN @ ELSE @ + 1]

\* parser._parse_region(region_name, lines), of at most n lines: up to the
\* main loop.
ParseRegionOf(n) ==
    /\ pc = "idle"
    /\ \E ls \in SeqsUpTo(RegionLines, n) :
          /\ region_lines' = ls
          /\ visits' = [k \in 1..Len(ls) |-> 0]
    /\ voyages' = <<>>
    /\ current_voyage' = NoVoyage
    /\ state' = "expecting_route_id"
    /\ loop_i' = 0
    /\ route_id_lines' = <<>>
    /\ pc' = "parse_region"
    /\ UNCHANGED <<extract_vars, matches, parse_vars, group_vars>>
    /\ UNCHANGED <<synth_vars, multi_vars, evals, file_vars, schedule_vars>>

\* An iteration in state expecting_route_id.
HandleRouteId ==
    /\ looping
    /\ state = "expecting_route_id"
    /\ \E r \in {handle_route_id(line_i, region_name, current_voyage, voyages)} :
           /\ current_voyage' = r.current_voyage
           /\ voyages' = r.voyages
           /\ state' = r.state
           /\ route_id_lines' = IF r.state = "in_metadata"
                                THEN Append(route_id_lines, loop_i)
                                ELSE route_id_lines
    /\ loop_i' = loop_i + 1
    /\ visits' = visited
    /\ UNCHANGED <<pc, region_lines>>
    /\ UNCHANGED <<extract_vars, matches, parse_vars, group_vars>>
    /\ UNCHANGED <<synth_vars, multi_vars, evals, file_vars, schedule_vars>>

\* An iteration in another state, of which r is the handler's return.
Handled(r) ==
    /\ state' = r.state
    /\ loop_i' = r.i + 1
    /\ current_voyage' = r.current_voyage
    /\ visits' = visited
    /\ UNCHANGED <<pc, region_lines, voyages, route_id_lines>>
    /\ UNCHANGED <<extract_vars, matches, parse_vars, group_vars>>
    /\ UNCHANGED <<synth_vars, multi_vars, evals, file_vars, schedule_vars>>

HandleMetadata ==
    /\ looping
    /\ state = "in_metadata"
    /\ \E r \in {handle_metadata(line_i, current_voyage, region_lines, loop_i, state)} :
          Handled(r)

HandleAlias ==
    /\ looping
    /\ state = "expecting_alias"
    /\ \E r \in {handle_alias(line_i, current_voyage, loop_i)} :
          Handled(r)

HandleTug ==
    /\ looping
    /\ state = "expecting_tug"
    /\ \E r \in {handle_tug(line_i, current_voyage, loop_i)} :
          Handled(r)

HandleBarge ==
    /\ looping
    /\ state = "expecting_barge"
    /\ \E r \in {handle_barge(line_i, current_voyage, region_lines, loop_i)} :
          Handled(r)

\* After the loop: the last voyage is appended and the list returned.
ParseRegionReturn ==
    /\ pc = "parse_region"
    /\ loop_i >= Len(region_lines)
    /\ voyages' = append_voyage(voyages, current_voyage)
    /\ pc' = "parse_region_returned"
    /\ UNCHANGED <<region_lines, loop_i, state, current_voyage, visits, route_id_lines>>
    /\ UNCHANGED <<extract_vars, matches, parse_vars, group_vars>>
    /\ UNCHANGED <<synth_vars, multi_vars, evals, file_vars, schedule_vars>>

ParseRegion == ParseRegionOf(MaxRegionLines)

ParseShortRegion == ParseRegionOf(MaxFairRegionLines)

LoopRegion ==
    \/ HandleRouteId
    \/ HandleMetadata
    \/ HandleAlias
    \/ HandleTug
    \/ HandleBarge
    \/ ParseRegionReturn

NextRegion == ParseRegion \/ LoopRegion

SpecRegion == Init /\ [][NextRegion]_vars

\* The code runs on: an iteration or the return that can be taken is taken.
NextRegionFair == ParseShortRegion \/ LoopRegion

SpecRegionFair == Init /\ [][NextRegionFair]_vars /\ WF_vars(LoopRegion)

----------------------------------------------------------------------------
(* Claims about VoyageParser._parse_region.                                *)

\* The lines that are no value of the field a state expects.
no_value(st, line) ==
    \/ is_metadata_label(line)
    \/ is_section_header(line)
    \/ (st = "expecting_barge" /\ port_code_rgx(line))
expecting == {"expecting_alias", "expecting_tug", "expecting_barge"}
field_of(voyage, st) ==
    CASE st = "expecting_alias" -> voyage.alias
      [] st = "expecting_tug" -> voyage.tug
      [] st = "expecting_barge" -> voyage.barge

\* An iteration on a line that is no value of the expected field empties
\* the field, changes nothing else of the voyage, and leaves the index on
\* the line, for state in_metadata.
EmptiedAndKept ==
    (looping /\ state \in expecting /\ no_value(state, line_i)) =>
        /\ field_of(current_voyage', state) = <<>>
        /\ \E value \in {current_voyage.alias, current_voyage.tug, current_voyage.barge} :
              current_voyage \in
                  {[current_voyage' EXCEPT !.alias = value],
                   [current_voyage' EXCEPT !.tug = value],
                   [current_voyage' EXCEPT !.barge = value]}
        /\ state' = "in_metadata"
        /\ loop_i' = loop_i

\* The iteration of state in_metadata on a line it has been left on: a label
\* is followed, and from 'Arrival' or a port code the ports are parsed.
TakesEffect ==
    (looping /\ state = "in_metadata" /\ visits[loop_i + 1] = 1) =>
        /\ line_i = alias_label => state' = "expecting_alias" /\ loop_i' = loop_i + 1
        /\ line_i = tug_label => state' = "expecting_tug" /\ loop_i' = loop_i + 1
        /\ line_i = barge_label => state' = "expecting_barge" /\ loop_i' = loop_i + 1
        /\ (line_i = arrival_label \/ port_code_rgx(line_i)) =>
              LET parsed_ports == parse_ports_and_schedule(region_lines, loop_i)
              IN  /\ state' = "expecting_route_id"
                  /\ current_voyage'.ports = current_voyage.ports \o parsed_ports.ports
                  /\ loop_i' = parsed_ports.new_index

\* C23: in the states expecting_alias, expecting_tug and expecting_barge a
\* line that is a metadata label or a section header (for expecting_barge
\* also a port code) empties the field and is processed again in state
\* in_metadata, where it takes its effect: it is neither stored nor skipped.
C23_LabelEmptiesFieldAndIsReprocessed ==
    [][EmptiedAndKept /\ TakesEffect]_vars

\* C23's case: 'Tug:' came where the alias was expected; the alias is empty
\* and the line, processed twice, has made the parser expect the tug.
C23_Witness ==
    /\ pc = "parse_region"
    /\ state = "expecting_tug"
    /\ loop_i >= 1
    /\ visits[loop_i] = 2
    /\ region_lines[loop_i] = tug_label
    /\ current_voyage.alias = <<>>

\* C24: _parse_region terminates: the main loop processes no line more than
\* twice, the index parse_ports_and_schedule returns is greater than the one
\* it started from, and the loop reaches the end of the lines and returns.
C24_ParseRegionTerminates ==
    /\ [](\A k \in 1..Len(visits) : visits[k] <= 2)
    /\ [][(looping /\ state = "in_metadata"
             /\ (arrival_label_rgx(line_i) \/ port_code_rgx(line_i))) =>
            /\ parse_ports_and_schedule(region_lines, loop_i).new_index > loop_i
            /\ loop_i' = parse_ports_and_schedule(region_lines, loop_i).new_index]_vars
    /\ (pc = "parse_region" ~> pc = "parse_region_returned")

\* C24's case: the region is parsed to its end; a line was processed twice
\* and the ports were parsed from it.
C24_Witness ==
    /\ pc = "parse_region_returned"
    /\ \E k \in 1..Len(visits) : visits[k] = 2
    /\ current_voyage.ports /= <<>>

\* C25: the returned voyages are the voyages started, once each and in the
\* order of their route-ID lines: as many as lines were taken as a route ID
\* in state expecting_route_id, the k-th with the route of the k-th of them.
C25_EveryVoyageOnce ==
    pc = "parse_region_returned" =>
        /\ Len(voyages) = Len(route_id_lines)
        /\ \A k \in 1..Len(voyages) :
              /\ voyages[k].some
              /\ voyages[k].route = strip(region_lines[route_id_lines[k] + 1])
        /\ \A k \in 1..(Len(route_id_lines) - 1) :
              route_id_lines[k] < route_id_lines[k + 1]

\* C25's case: two voyages are returned, the second being the one that was
\* being filled when the lines ended.
C25_Witness ==
    /\ pc = "parse_region_returned"
    /\ Len(voyages) = 2
    /\ voyages[1] /= voyages[2]
    /\ voyages[2] = current_voyage

====
